---- MODULE Spec2Model ----
(***************************************************************************)
(* A model of bqdrift: the drift detector (src/src/drift/detector.rs) and  *)
(* the execution orchestrator (src/src/executor/runner.rs,                 *)
(* partition_writer.rs, invariant_runner.rs) and the declaration loader    *)
(* (src/src/dsl/loader.rs, resolver.rs).                                   *)
(*                                                                         *)
(* Dates are day numbers, timestamps are integers, texts (SQL, schema,     *)
(* declaration text) are short strings, and Option<T> is a sequence of     *)
(* length 0 (None) or 1 (Some).                                            *)
(***************************************************************************)
EXTENDS Integers, Sequences, FiniteSets, Bags, TLC

VARIABLES
    dpc,            \* detector: "idle" before detect, "ok" / "err" once it returned
    stored_states,  \* detector: the stored_states argument of detect
    from_date,      \* detector: the from argument of detect
    to_date,        \* detector: the to argument of detect
    report,         \* detector: DriftReport.partitions of the returned report, as a bag
    rpc,            \* runner: "new", "ready", "enumerating", "streaming", "returned"
    parallelism,    \* runner: Runner.parallelism
    op,             \* runner: the operation called and its arguments
    current_pk,     \* runner: the loop variable `current` of the partition enumeration
    tasks,          \* runner: the items of the stream, <<query index or name, partition key>>
    writes,         \* runner: the write_partition call of each item the stream yielded so far
    results,        \* runner: the items in the order their writes completed
    ret,            \* runner: what the operation returned
    warehouse,      \* runner: per write, what its statements did to the destination partition
    lpc,            \* loader: "idle", "resolving", "returned"
    declared_versions,  \* loader: raw.versions as the declaration file lists them
    raw_versions,   \* loader: raw.versions after the sort of resolve_query
    resolved_schemas,   \* loader: the map resolved_schemas of resolve_query
    resolved_invariants,\* loader: the map resolved_invariants of resolve_query
    versions,       \* loader: the vector versions of resolve_query
    load_result,    \* loader: what resolve_query returned
    up_stored,      \* upstream pass: the stored argument of detect_upstream_changed
    all_states,     \* upstream pass: the all_states argument
    up_calls,       \* upstream pass: the calls made with these arguments, each with
                    \* the upstream_states map it was given and its result
    dir_pc,         \* load_dir: where load_dir_with_contents is
    yaml_files,     \* load_dir: the files FileLoader::load_dir returned
    file_idx,       \* load_dir: the index of the file the loop is at
    queries,        \* load_dir: the local vector queries
    contents,       \* load_dir: the local map contents, as its (name, text) pairs
    dir_result      \* load_dir: what load_dir_with_contents returned

detVars == <<dpc, stored_states, from_date, to_date, report>>

runVars == <<rpc, parallelism, op, current_pk, tasks, writes, results, ret, warehouse>>

loadVars == <<lpc, declared_versions, raw_versions, resolved_schemas, resolved_invariants, versions, load_result>>

upVars == <<up_stored, all_states, up_calls>>
dirVars == <<dir_pc, yaml_files, file_idx, queries, contents, dir_result>>

vars == <<detVars, runVars, loadVars, upVars, dirVars>>

----------------------------------------------------------------------------
\* Option<T>

None == <<>>

Some(x) == <<x>>

IsSome(o) == o # <<>>

Unwrap(o) == o[1]

----------------------------------------------------------------------------
\* Bounds of the model

MaxDate == 1        \* partition dates are 0..MaxDate

MaxStored == 2      \* stored_states holds at most this many rows

MaxTime == 2        \* executed_at timestamps are 1..MaxTime

Today == 1          \* the date chrono::Utc::now().date_naive() returns during a call

MaxEnvLen == 2      \* BQDRIFT_PARALLELISM holds at most this many characters

MaxPar == 2         \* with_parallelism is called with 0..MaxPar

MaxStride == 2      \* backfill_partitions is called with an interval of -1..MaxStride

MaxVersions == 2    \* a declaration lists at most this many versions, numbered 1..MaxVersions

----------------------------------------------------------------------------
\* The declarations the detector is constructed with

MAX_DETECTION_DAYS == 3650

\* A date further than MAX_DETECTION_DAYS away from every partition date.
FarDate == MAX_DETECTION_DAYS + MaxDate + 1

Dates == 0..MaxDate

\* QueryDef.versions, sorted by (effective_from, version), each with the
\* severities of its before and after invariant checks.  q1 has a version
\* for every date; q2 has none before date 1 and carries two revisions, the
\* second one not yet effective.
Queries ==
    [q1 |-> [name |-> "q1", partition_field |-> Some("date"),
             versions |-> <<
               [version |-> 1, effective_from |-> 0, sql_content |-> "A",
                schema |-> "S1", revisions |-> <<>>,
                invariants |-> [before |-> <<"Error">>, after |-> <<"Error">>]],
               [version |-> 2, effective_from |-> 1, sql_content |-> "B",
                schema |-> "S1", revisions |-> <<>>,
                invariants |-> [before |-> <<"Warning", "Error">>,
                                after |-> <<>>]] >>],
     q2 |-> [name |-> "q2", partition_field |-> Some("date"),
             versions |-> <<
               [version |-> 1, effective_from |-> 1, sql_content |-> "A",
                schema |-> "S2",
                invariants |-> [before |-> <<>>, after |-> <<"Warning">>],
                revisions |-> <<
                  [revision |-> 1, effective_from |-> 1, sql_content |-> "B"],
                  [revision |-> 2, effective_from |-> 9, sql_content |-> "C"] >>] >>]]

QueryNames == DOMAIN Queries

\* yaml_contents: the verbatim declaration text per query name; q2 has none.
YamlContents == [q1 |-> "Y1"]

----------------------------------------------------------------------------
\* Collaborators of the detector whose code is outside src/

\* Checksums::compute hashes each text on its own to a 16-hex-char digest.
Hash(text) ==
    CASE text = "A"  -> "3f1a"
      [] text = "B"  -> "c07e"
      [] text = "C"  -> "77b9"
      [] text = "S1" -> "51d2"
      [] text = "S2" -> "9b44"
      [] text = "Y1" -> "e6a0"
      [] text = "Y2" -> "0d7c"
      [] OTHER       -> "ffff"

\* compress_to_base64: gzip, then base64.
compress_to_base64(text) ==
    CASE text = "A" -> "H4sI_A"
      [] text = "B" -> "H4sI_B"
      [] OTHER      -> "H4sI_"

\* QueryDef::get_version_for_date: the version with the greatest
\* effective_from <= date, or None when the date precedes every version.
get_version_for_date(query, date) ==
    LET vs == query.versions
        ok == {i \in 1..Len(vs) : vs[i].effective_from <= date}
        best == {i \in ok : \A j \in ok :
                    \/ vs[j].effective_from < vs[i].effective_from
                    \/ (vs[j].effective_from = vs[i].effective_from /\ j <= i)}
    IN  IF ok = {} THEN None ELSE Some(vs[CHOOSE i \in best : TRUE])

\* VersionDef::get_sql_for_date: the SQL of the greatest revision with
\* effective_from <= date, else the version's base SQL.
get_sql_for_date(v, date) ==
    LET rs == v.revisions
        ok == {i \in 1..Len(rs) : rs[i].effective_from <= date}
    IN  IF ok = {} THEN v.sql_content
        ELSE rs[CHOOSE i \in ok : \A j \in ok : j <= i].sql_content

\* Checksums::from_version
Checksums_from_version(v, yaml_content, ref_date) ==
    [sql    |-> Hash(get_sql_for_date(v, ref_date)),
     schema |-> Hash(v.schema),
     yaml   |-> Hash(yaml_content)]

\* DriftState::needs_rerun
needs_rerun(state) == state # "Current"

----------------------------------------------------------------------------
\* DriftDetector (src/src/drift/detector.rs)

\* CompareChecksums with the sql comparison made before the schema comparison.
CompareChecksums_SqlFirst(v, stored, current_checksums) ==
    IF current_checksums.sql # stored.sql_checksum THEN "SqlChanged"
    ELSE IF current_checksums.schema # stored.schema_checksum THEN "SchemaChanged"
    ELSE IF v.version # stored.version THEN "VersionUpgraded"
    ELSE "Current"

\* The comparisons of a stored state that did not fail against the current
\* checksums, in the order schema, sql, version.
CompareChecksums(v, stored, current_checksums) ==
    IF current_checksums.schema # stored.schema_checksum THEN "SchemaChanged"
    ELSE IF current_checksums.sql # stored.sql_checksum THEN "SqlChanged"
    ELSE IF v.version # stored.version THEN "VersionUpgraded"
    ELSE "Current"

\* checksum_cache.entry(v.version).or_insert_with(|| Checksums::from_version(..))
CacheEntry(cache, v, yaml_content, today) ==
    IF v.version \in DOMAIN cache THEN cache
    ELSE [n \in DOMAIN cache \cup {v.version} |->
            IF n = v.version THEN Checksums_from_version(v, yaml_content, today)
            ELSE cache[n]]

\* The cache after one call of detect_partition_cached: it is consulted only
\* for a stored state that did not fail.
CacheAfter(version, stored, yaml_content, cache, today) ==
    IF IsSome(version) /\ IsSome(stored) /\ Unwrap(stored).status # "Failed"
    THEN CacheEntry(cache, Unwrap(version), yaml_content, today)
    ELSE cache

\* ClassifyPartition with the status test made after the comparisons: a failed
\* execution whose checksums differ is reported as a change.
ClassifyPartition_StatusLast(version, stored, yaml_content, checksum_cache, today) ==
    IF ~IsSome(version) \/ ~IsSome(stored) THEN
        [state |-> "NeverRun", executed_version |-> None, caused_by |-> None]
    ELSE
        LET v == Unwrap(version)
            current_checksums ==
                CacheEntry(checksum_cache, v, yaml_content, today)[v.version]
            compared == CompareChecksums(v, Unwrap(stored), current_checksums)
        IN  [state |-> IF compared = "Current" /\ Unwrap(stored).status = "Failed"
                       THEN "Failed" ELSE compared,
             executed_version |-> Some(Unwrap(stored).version),
             caused_by |-> None]

\* let (state, executed_version, caused_by) = match (version, stored) {..}
ClassifyPartition(version, stored, yaml_content, checksum_cache, today) ==
    IF ~IsSome(version) THEN
        [state |-> "NeverRun", executed_version |-> None, caused_by |-> None]
    ELSE IF ~IsSome(stored) THEN
        [state |-> "NeverRun", executed_version |-> None, caused_by |-> None]
    ELSE IF Unwrap(stored).status = "Failed" THEN
        [state |-> "Failed", executed_version |-> Some(Unwrap(stored).version),
         caused_by |-> None]
    ELSE
        LET v == Unwrap(version)
            current_checksums ==
                CacheEntry(checksum_cache, v, yaml_content, today)[v.version]
        IN  [state |-> CompareChecksums(v, Unwrap(stored), current_checksums),
             executed_version |-> Some(Unwrap(stored).version),
             caused_by |-> None]

\* CurrentSql that leaves a partition that never ran without its SQL.
CurrentSql_SkipNeverRun(state, version, today) ==
    IF needs_rerun(state) /\ state # "NeverRun"
    THEN (IF IsSome(version) THEN Some(get_sql_for_date(Unwrap(version), today))
          ELSE None)
    ELSE None

\* CurrentSql without the needs_rerun test: the SQL is always filled in.
CurrentSql_Always(state, version, today) ==
    IF IsSome(version) THEN Some(get_sql_for_date(Unwrap(version), today))
    ELSE None

\* CurrentSql that leaves the SQL out for a Failed partition.
CurrentSql_SkipFailed(state, version, today) ==
    IF needs_rerun(state) /\ state # "Failed"
    THEN (IF IsSome(version) THEN Some(get_sql_for_date(Unwrap(version), today))
          ELSE None)
    ELSE None

\* let current_sql = if state.needs_rerun() { version.map(..) } else { None }
CurrentSql(state, version, today) ==
    IF needs_rerun(state)
    THEN (IF IsSome(version) THEN Some(get_sql_for_date(Unwrap(version), today))
          ELSE None)
    ELSE None

\* ExecutedSqlB64 that keeps the executed SQL of successful runs only.
ExecutedSqlB64_SuccessOnly(stored) ==
    IF IsSome(stored) /\ Unwrap(stored).status = "Success"
    THEN Unwrap(stored).executed_sql_b64
    ELSE None

\* let executed_sql_b64 = stored.and_then(|s| s.executed_sql_b64.clone())
ExecutedSqlB64(stored) ==
    IF IsSome(stored) THEN Unwrap(stored).executed_sql_b64 ELSE None

\* detect_partition_cached: the PartitionDrift and the cache it leaves.
detect_partition_cached(query_name, query, partition_date, stored, yaml_content, checksum_cache, today) ==
    LET version == get_version_for_date(query, partition_date)
        c       == ClassifyPartition(version, stored, yaml_content,
                                     checksum_cache, today)
    IN  [drift |->
           [query_name       |-> query_name,
            partition_key    |-> partition_date,
            state            |-> c.state,
            current_version  |-> IF IsSome(version) THEN Unwrap(version).version ELSE 0,
            executed_version |-> c.executed_version,
            caused_by        |-> c.caused_by,
            executed_sql_b64 |-> ExecutedSqlB64(stored),
            current_sql      |-> CurrentSql(c.state, version, today)],
         cache |-> CacheAfter(version, stored, yaml_content, checksum_cache, today)]

\* let stored_map: HashMap<(&str, NaiveDate), &PartitionState> =
\*     stored_states.iter().map(..).collect(): a later row replaces an earlier
\* row of the same key.
stored_map(stored) ==
    LET keys == {<<stored[i].query_name, stored[i].partition_date>> :
                    i \in 1..Len(stored)}
    IN  [k \in keys |->
            LET idx == {i \in 1..Len(stored) :
                          <<stored[i].query_name, stored[i].partition_date>> = k}
            IN  stored[CHOOSE i \in idx : \A j \in idx : j <= i]]

\* stored_map.get(&(query_name, current))
MapGet(map, key) == IF key \in DOMAIN map THEN Some(map[key]) ELSE None

\* self.yaml_contents.get(query_name).map(|s| s.as_str()).unwrap_or("")
YamlOf(query_name) ==
    IF query_name \in DOMAIN YamlContents THEN YamlContents[query_name] ELSE ""

\* DetectQuery whose loop stops before the last date (current < to).
RECURSIVE DetectQuery_Exclusive(_, _, _, _, _, _)
DetectQuery_Exclusive(query_name, current, to, map, checksum_cache, today) ==
    IF current >= to THEN <<>>
    ELSE LET r == detect_partition_cached(
                    query_name, Queries[query_name], current,
                    MapGet(map, <<query_name, current>>),
                    YamlOf(query_name), checksum_cache, today)
         IN  <<r.drift>> \o DetectQuery_Exclusive(query_name, current + 1, to,
                                                  map, r.cache, today)

\* The closure run for one query: the loop over the dates from current to to,
\* sharing one checksum cache.
RECURSIVE DetectQuery(_, _, _, _, _, _)
DetectQuery(query_name, current, to, map, checksum_cache, today) ==
    IF current > to THEN <<>>
    ELSE LET r == detect_partition_cached(
                    query_name, Queries[query_name], current,
                    MapGet(map, <<query_name, current>>),
                    YamlOf(query_name), checksum_cache, today)
         IN  <<r.drift>> \o DetectQuery(query_name, current + 1, to, map,
                                        r.cache, today)

\* The sequence as a bag: the elements with their number of occurrences.
BagOfSeq(seq) ==
    [e \in {seq[i] : i \in DOMAIN seq} |->
        Cardinality({i \in DOMAIN seq : seq[i] = e})]

\* self.queries.par_iter().flat_map(..).collect(), then report.add(drift) for
\* each: the drifts of every query.  The map iterates a HashMap in parallel,
\* so the order of the queries in the report is arbitrary; the report is kept
\* as the bag of its entries.
RECURSIVE FlatMap(_, _, _, _, _)
FlatMap(names, from, to, map, today) ==
    IF names = {} THEN EmptyBag
    ELSE LET query_name == CHOOSE n \in names : TRUE
         IN  BagOfSeq(DetectQuery(query_name, from, to, map, <<>>, today))
             (+) FlatMap(names \ {query_name}, from, to, map, today)

\* NumDays counting seconds, as num_seconds() in place of num_days() would.
NumDays_Seconds(from, to) ==
    IF to - from > 0 THEN (to - from) * 86400 ELSE 0

\* (to - from).num_days().max(0)
NumDays(from, to) == IF to - from > 0 THEN to - from ELSE 0

----------------------------------------------------------------------------
\* The inputs of detect

Statuses == {"Success", "Failed"}

\* PartitionState: the fields detect reads, the yaml checksum and the
\* execution time.
StoredRows ==
    [query_name       : QueryNames,
     partition_date   : Dates,
     version          : {1, 2},
     sql_checksum     : {Hash("A"), Hash("B")},
     schema_checksum  : {Hash("S1"), Hash("S2")},
     yaml_checksum    : {Hash("Y1"), Hash("")},
     executed_sql_b64 : {None, Some(compress_to_base64("A")),
                         Some(compress_to_base64("B"))},
     executed_at      : 1..MaxTime,
     status           : Statuses]

\* The rows as the executor writes them for the declaration text Y1: the
\* checksum and the compressed text of the same executed SQL.
WrittenRows ==
    {s \in StoredRows :
        /\ s.yaml_checksum = Hash("Y1")
        /\ \E sql \in {"A", "B"} :
              /\ s.sql_checksum = Hash(sql)
              /\ s.executed_sql_b64 = Some(compress_to_base64(sql))}

\* Rows left in storage by a query that is no longer declared.
UnknownRows ==
    [query_name       : {"q0"},
     partition_date   : Dates,
     version          : {1},
     sql_checksum     : {Hash("A")},
     schema_checksum  : {Hash("S1")},
     yaml_checksum    : {Hash("Y1")},
     executed_sql_b64 : {Some(compress_to_base64("A"))},
     executed_at      : {1},
     status           : {"Success"}]

\* The stored_states a caller passes: no row, any one row, or several rows
\* that are written rows or rows of an undeclared query (of the same or of
\* different keys, in any order).
StoredInputs ==
    {<<>>} \cup {<<s>> : s \in StoredRows \cup UnknownRows}
           \cup UNION {[1..n -> WrittenRows \cup UnknownRows] : n \in 2..MaxStored}

\* DriftDetector::detect
Detect ==
    /\ dpc = "idle"
    /\ \E stored \in StoredInputs, from \in Dates, to \in Dates \cup {FarDate} :
        /\ stored_states' = stored
        /\ from_date' = from
        /\ to_date' = to
        /\ IF NumDays(from, to) > MAX_DETECTION_DAYS
           THEN /\ dpc' = "err"
                /\ report' = EmptyBag
           ELSE /\ dpc' = "ok"
                /\ report' = FlatMap(QueryNames, from, to, stored_map(stored), Today)
    /\ UNCHANGED <<runVars, loadVars, upVars, dirVars>>

----------------------------------------------------------------------------
\* A detector built over a declaration that gives one version number twice

\* The QueryDef resolve_query returns for a declaration whose two versions
\* both carry the number 1: the loader sorts them by effective_from and
\* rejects neither (loader.rs:86-121).
TwiceDeclared ==
    [q3 |-> [name |-> "q3", partition_field |-> Some("date"),
             versions |-> <<
               [version |-> 1, effective_from |-> 0, sql_content |-> "A",
                schema |-> "S1", revisions |-> <<>>,
                invariants |-> [before |-> <<>>, after |-> <<>>]],
               [version |-> 1, effective_from |-> 1, sql_content |-> "B",
                schema |-> "S1", revisions |-> <<>>,
                invariants |-> [before |-> <<>>, after |-> <<>>]] >>]]

\* The rows the executor wrote for q3, which has no declaration text kept.
TwiceRows ==
    {s \in [query_name       : DOMAIN TwiceDeclared,
            partition_date   : Dates,
            version          : {1},
            sql_checksum     : {Hash("A"), Hash("B")},
            schema_checksum  : {Hash("S1")},
            yaml_checksum    : {Hash("")},
            executed_sql_b64 : {Some(compress_to_base64("A")),
                                Some(compress_to_base64("B"))},
            executed_at      : 1..MaxTime,
            status           : Statuses] :
        \E sql \in {"A", "B"} :
            /\ s.sql_checksum = Hash(sql)
            /\ s.executed_sql_b64 = Some(compress_to_base64(sql))}

\* The stored_states passed to this detector.
TwiceInputs == UNION {[1..n -> TwiceRows] : n \in 0..MaxStored}

\* The closure of detect for one query of a detector over the QueryDefs defs: the loop over
\* the dates from current to to, sharing one checksum cache.
RECURSIVE DetectQueryOf(_, _, _, _, _, _, _)
DetectQueryOf(defs, query_name, current, to, map, checksum_cache, today) ==
    IF current > to THEN <<>>
    ELSE LET r == detect_partition_cached(
                    query_name, defs[query_name], current,
                    MapGet(map, <<query_name, current>>),
                    YamlOf(query_name), checksum_cache, today)
         IN  <<r.drift>> \o DetectQueryOf(defs, query_name, current + 1, to,
                                          map, r.cache, today)

\* DriftDetector::detect of the detector built over TwiceDeclared.
DetectTwice ==
    /\ dpc = "idle"
    /\ \E stored \in TwiceInputs, from \in Dates, to \in Dates \cup {FarDate} :
        /\ stored_states' = stored
        /\ from_date' = from
        /\ to_date' = to
        /\ IF NumDays(from, to) > MAX_DETECTION_DAYS
           THEN /\ dpc' = "err"
                /\ report' = EmptyBag
           ELSE /\ dpc' = "ok"
                /\ report' = BagOfSeq(DetectQueryOf(TwiceDeclared, "q3", from, to,
                                                    stored_map(stored), <<>>, Today))
    /\ UNCHANGED <<runVars, loadVars, upVars, dirVars>>

----------------------------------------------------------------------------
\* Collaborators of the runner whose code is outside src/

\* PartitionKey::Day(d).next()
PartitionKey_next(pk) == pk + 1

\* PartitionKey::Day(d).next_by(stride)
PartitionKey_next_by(pk, stride) == pk + stride

\* resolve_invariants_def: the before and the after checks of a version.
resolve_invariants_def(invariants) == <<invariants.before, invariants.after>>

\* What a check can come out as.
CheckStatuses == {"Passed", "Failed", "Skipped"}

\* InvariantChecker::run_checks: one result per check, in order, with the
\* severity of the check and the status the warehouse gives it.
RunChecksOutcomes(checks) ==
    {[i \in 1..Len(checks) |-> [status |-> st[i], severity |-> checks[i]]] :
        st \in [1..Len(checks) -> CheckStatuses]}

----------------------------------------------------------------------------
\* Runner (src/src/executor/runner.rs)

DefaultParallelism == 5

EnvChars == {"0", "1", "x", "-", "+"}

\* The values of BQDRIFT_PARALLELISM: unset, or a text.
EnvValues ==
    {None} \cup {Some(t) : t \in UNION {[1..n -> EnvChars] : n \in 0..MaxEnvLen}}

\* The value of a decimal digit, or -1 for another character.
DigitOf(c) == CASE c = "0" -> 0 [] c = "1" -> 1 [] OTHER -> -1

\* The decimal value of a text of digits, or None when a character is no digit.
RECURSIVE DigitsValue(_, _)
DigitsValue(t, acc) ==
    IF t = <<>> THEN Some(acc)
    ELSE IF DigitOf(Head(t)) < 0 THEN None
    ELSE DigitsValue(Tail(t), 10 * acc + DigitOf(Head(t)))

\* s.parse::<usize>(): an optional + and at least one digit.
ParseUsize(t) ==
    LET digits == IF t # <<>> /\ Head(t) = "+" THEN Tail(t) ELSE t
    IN  IF digits = <<>> THEN None ELSE DigitsValue(digits, 0)

\* default_parallelism: env::var(..).ok().and_then(|s| s.parse().ok()).unwrap_or(5)
default_parallelism(env) ==
    IF ~IsSome(env) THEN DefaultParallelism
    ELSE IF IsSome(ParseUsize(Unwrap(env))) THEN Unwrap(ParseUsize(Unwrap(env)))
    ELSE DefaultParallelism

\* parallelism.max(1)
ClampParallelism(p) == IF p > 1 THEN p ELSE 1

\* Runner::new with the environment it finds.
RunnerNew(env) ==
    /\ rpc = "new"
    /\ rpc' = "ready"
    /\ parallelism' = default_parallelism(env)
    /\ UNCHANGED <<op, current_pk, tasks, writes, results, ret, warehouse, detVars, loadVars, upVars, dirVars>>

\* Runner::with_parallelism
WithParallelism(p) ==
    /\ rpc = "ready"
    /\ parallelism' = ClampParallelism(p)
    /\ UNCHANGED <<rpc, op, current_pk, tasks, writes, results, ret, warehouse, detVars, loadVars, upVars, dirVars>>

\* The names a caller can ask for: the known queries and an unknown one.
AskedNames == QueryNames \cup {"qx"}

Strides == {None} \cup {Some(i) : i \in (-1)..MaxStride}

\* BackfillPartitions that answers an unknown name with an empty report.
BackfillPartitions_EmptyReport(query_name, from, to, interval) ==
    /\ rpc = "ready"
    /\ op' = [kind |-> "backfill", query_name |-> query_name, from |-> from,
              to |-> to, interval |-> interval]
    /\ IF query_name \notin QueryNames
       THEN /\ rpc' = "returned"
            /\ ret' = [status |-> "Ok", stats |-> <<>>, failures |-> <<>>]
            /\ UNCHANGED current_pk
       ELSE /\ rpc' = "enumerating"
            /\ current_pk' = from
            /\ UNCHANGED ret
    /\ UNCHANGED <<parallelism, tasks, writes, results, warehouse, detVars, loadVars, upVars, dirVars>>

\* Runner::backfill_partitions up to the start of the enumeration loop:
\* QueryNotFound for an unknown name, else current = from.
BackfillPartitions(query_name, from, to, interval) ==
    /\ rpc = "ready"
    /\ op' = [kind |-> "backfill", query_name |-> query_name, from |-> from,
              to |-> to, interval |-> interval]
    /\ IF query_name \notin QueryNames
       THEN /\ rpc' = "returned"
            /\ ret' = [status |-> "QueryNotFound", stats |-> <<>>, failures |-> <<>>]
            /\ UNCHANGED current_pk
       ELSE /\ rpc' = "enumerating"
            /\ current_pk' = from
            /\ UNCHANGED ret
    /\ UNCHANGED <<parallelism, tasks, writes, results, warehouse, detVars, loadVars, upVars, dirVars>>

\* The longest list of partitions the model enumerates: a list that long
\* stands for an enumeration that does not end.
MaxPartitions == MaxDate + 2

\* One turn of `while current <= to { partitions.push(current); current = .. }`,
\* or its exit to the stream over the partitions.
EnumeratePartition ==
    /\ rpc = "enumerating"
    /\ IF current_pk <= op.to
       THEN /\ Len(tasks) < MaxPartitions
            /\ tasks' = Append(tasks, <<op.query_name, current_pk>>)
            /\ current_pk' = IF IsSome(op.interval)
                             THEN PartitionKey_next_by(current_pk, Unwrap(op.interval))
                             ELSE PartitionKey_next(current_pk)
            /\ UNCHANGED rpc
       ELSE /\ rpc' = "streaming"
            /\ UNCHANGED <<tasks, current_pk>>
    /\ UNCHANGED <<parallelism, op, writes, results, ret, warehouse, detVars, loadVars, upVars, dirVars>>

\* The queries of the runner, in the order of Runner.queries.
QuerySeq == <<"q1", "q2">>

\* Runner::run_for_partition up to the stream over 0..self.queries.len().
RunForPartition(partition_key) ==
    /\ rpc = "ready"
    /\ op' = [kind |-> "run_for_partition", query_name |-> "", from |-> partition_key,
              to |-> partition_key, interval |-> None]
    /\ tasks' = [i \in 1..Len(QuerySeq) |-> <<QuerySeq[i], partition_key>>]
    /\ rpc' = "streaming"
    /\ UNCHANGED <<parallelism, current_pk, writes, results, ret, warehouse, detVars, loadVars, upVars, dirVars>>

----------------------------------------------------------------------------
\* PartitionWriter::write_partition (src/src/executor/partition_writer.rs) and
\* execute_with_invariants (src/src/executor/invariant_runner.rs)

\* PartitionKey::Day(d).to_naive_date()
to_naive_date(pk) == pk

\* has_error with all in place of any.
has_error_All(check_results) ==
    \A i \in DOMAIN check_results :
        check_results[i].status = "Failed" /\ check_results[i].severity = "Error"

\* results.iter().any(|r| r.status == Failed && r.severity == Error)
has_error(check_results) ==
    \E i \in DOMAIN check_results :
        check_results[i].status = "Failed" /\ check_results[i].severity = "Error"

\* A write_partition call: where it stands (pc), the results of its before
\* and after checks, the calls it has made to the warehouse, and its result
\* ("pending", "Ok" or the kind of its error).
WriteState(pc, before, after, calls, result) ==
    [pc |-> pc, before |-> before, after |-> after, calls |-> calls,
     result |-> result]

\* The checks of the version write_partition resolves for the item.
ChecksOf(item) ==
    resolve_invariants_def(
        Unwrap(get_version_for_date(Queries[item[1]], to_naive_date(item[2]))).invariants)

\* The public functions of PartitionWriter.
WriterFns ==
    {"write_partition", "write_partition_skip_invariants",
     "write_partition_truncate", "write_partition_truncate_skip_invariants"}

\* The run_invariants argument the function passes to its _impl.
RunInvariantsOf(fn) ==
    fn \notin {"write_partition_skip_invariants",
               "write_partition_truncate_skip_invariants"}

\* Whether the function is write_partition_truncate_impl.
TruncateOf(fn) ==
    fn \in {"write_partition_truncate", "write_partition_truncate_skip_invariants"}

\* The writer function an operation uses: the runner calls write_partition.
WriterFnOf(kind) == IF kind \in WriterFns THEN kind ELSE "write_partition"

\* WriteStart that fails for a missing version only after the body statement.
WriteStart_BodyFirst(item, fn) ==
    IF ~IsSome(get_version_for_date(Queries[item[1]], to_naive_date(item[2])))
    THEN WriteState("done", <<>>, <<>>, <<"body">>, "Partition")
    ELSE IF ~RunInvariantsOf(fn) \/ ChecksOf(item)[1] = <<>>
    THEN WriteState("body", <<>>, <<>>, <<>>, "pending")
    ELSE WriteState("before", <<>>, <<>>, <<>>, "pending")

\* write_partition_impl and write_partition_truncate_impl up to their first
\* call to the warehouse: a Partition error without a version for the date
\* or (build_merge_sql) without a partition field; with run_invariants the
\* before checks if there are any; else the body.
WriteStart(item, fn) ==
    IF ~IsSome(get_version_for_date(Queries[item[1]], to_naive_date(item[2])))
    THEN WriteState("done", <<>>, <<>>, <<>>, "Partition")
    ELSE IF ~TruncateOf(fn) /\ ~IsSome(Queries[item[1]].partition_field)
    THEN WriteState("done", <<>>, <<>>, <<>>, "Partition")
    ELSE IF ~RunInvariantsOf(fn) \/ ChecksOf(item)[1] = <<>>
    THEN WriteState("body", <<>>, <<>>, <<>>, "pending")
    ELSE WriteState("before", <<>>, <<>>, <<>>, "pending")

\* run_before_checks once the checker returned check_results.
AfterBeforeChecks(w, check_results) ==
    IF has_error(check_results)
    THEN WriteState("done", check_results, <<>>,
                    Append(w.calls, "before_checks"), "InvariantFailed")
    ELSE WriteState("body", check_results, <<>>,
                    Append(w.calls, "before_checks"), "pending")

\* client.execute_query(statement) on the destination partition: a statement
\* that returns an error changes nothing; the MERGE and the INSERT leave the
\* partition written, the DELETE leaves it deleted.
StatementEffect(partition, call, ok) ==
    IF ~ok THEN partition
    ELSE IF call = "delete" THEN "deleted"
    ELSE "written"

\* AfterDelete that issues the INSERT whatever the DELETE returned.
AfterDelete_IgnoreError(w, ok) ==
    WriteState("insert", w.before, <<>>, Append(w.calls, "delete"), "pending")

\* The first statement of the body of write_partition_truncate_impl:
\* client.execute_query(&delete_sql).await? -- an error is returned, else the
\* INSERT follows.
AfterDelete(w, ok) ==
    IF ~ok
    THEN WriteState("done", w.before, <<>>, Append(w.calls, "delete"), "Warehouse")
    ELSE WriteState("insert", w.before, <<>>, Append(w.calls, "delete"), "pending")

\* AfterBody that runs the after checks also when the statement failed.
AfterBody_ChecksAfterError(w, call, ok, after_checks) ==
    IF after_checks = <<>>
    THEN WriteState("done", w.before, <<>>, Append(w.calls, call),
                    IF ok THEN "Ok" ELSE "Warehouse")
    ELSE WriteState("after", w.before, <<>>, Append(w.calls, call), "pending")

\* execute_fn().await? once its last statement (call: the MERGE "body", or
\* the "insert" of the truncate mode) returned, and the run_after_checks that
\* follows it: an error of the statement is returned; without after checks
\* (or without run_invariants) the write is complete.
AfterBody(w, call, ok, after_checks) ==
    IF ~ok
    THEN WriteState("done", w.before, <<>>, Append(w.calls, call), "Warehouse")
    ELSE IF after_checks = <<>>
    THEN WriteState("done", w.before, <<>>, Append(w.calls, call), "Ok")
    ELSE WriteState("after", w.before, <<>>, Append(w.calls, call), "pending")

\* The after checks execute_with_invariants runs for the item: none without
\* run_invariants.
AfterChecksOf(item, fn) ==
    IF RunInvariantsOf(fn) THEN ChecksOf(item)[2] ELSE <<>>

\* run_after_checks where a result Failed with severity Error fails the write.
AfterAfterChecks_FailOnError(w, check_results) ==
    WriteState("done", w.before, check_results,
               Append(w.calls, "after_checks"),
               IF has_error(check_results) THEN "InvariantFailed" ELSE "Ok")

\* run_after_checks once the checker returned check_results: every result is
\* reported.
AfterAfterChecks(w, check_results) ==
    WriteState("done", w.before, check_results,
               Append(w.calls, "after_checks"), "Ok")

----------------------------------------------------------------------------
\* The stream of writes: stream::iter(..).map(..).buffer_unordered(parallelism)

\* The writes started and not yet completed.
InFlight == {i \in DOMAIN writes : writes[i].pc # "done"}

\* CanPull with one future more than max.
CanPull_OneMore(in_progress, max) == in_progress <= max

\* buffer_unordered(max) pulls the next item only while fewer than max
\* futures are in progress.
CanPull(in_progress, max) == in_progress < max

\* The write i moves to the state w; a completed write yields its result.
SetWrite(i, w) ==
    /\ writes' = [writes EXCEPT ![i] = w]
    /\ results' = IF w.pc = "done" THEN Append(results, i) ELSE results

\* The stream yields its next item and the write for it starts.
Dispatch ==
    /\ rpc = "streaming"
    /\ Len(writes) < Len(tasks)
    /\ CanPull(Cardinality(InFlight), parallelism)
    /\ LET i == Len(writes) + 1
           w == WriteStart(tasks[i], "write_partition")
       IN  /\ writes' = Append(writes, w)
           /\ results' = IF w.pc = "done" THEN Append(results, i) ELSE results
    /\ warehouse' = Append(warehouse, "untouched")
    /\ UNCHANGED <<rpc, parallelism, op, current_pk, tasks, ret, detVars, loadVars, upVars, dirVars>>

\* The before checks of a write return.
BeforeChecks(i) ==
    /\ rpc \in {"streaming", "writing"}
    /\ i \in DOMAIN writes
    /\ writes[i].pc = "before"
    /\ \E check_results \in RunChecksOutcomes(ChecksOf(tasks[i])[1]) :
          SetWrite(i, AfterBeforeChecks(writes[i], check_results))
    /\ UNCHANGED <<rpc, parallelism, op, current_pk, tasks, ret, warehouse, detVars, loadVars, upVars, dirVars>>

\* The first statement of the body of a write returns, with success or with
\* an error: the MERGE, or the DELETE of the truncate mode.
Body(i) ==
    /\ rpc \in {"streaming", "writing"}
    /\ i \in DOMAIN writes
    /\ writes[i].pc = "body"
    /\ \E ok \in BOOLEAN :
          /\ IF TruncateOf(WriterFnOf(op.kind))
             THEN SetWrite(i, AfterDelete(writes[i], ok))
             ELSE SetWrite(i, AfterBody(writes[i], "body", ok,
                                        AfterChecksOf(tasks[i], WriterFnOf(op.kind))))
          /\ warehouse' = [warehouse EXCEPT ![i] =
                StatementEffect(@, IF TruncateOf(WriterFnOf(op.kind))
                                   THEN "delete" ELSE "body", ok)]
    /\ UNCHANGED <<rpc, parallelism, op, current_pk, tasks, ret, detVars, loadVars, upVars, dirVars>>

\* The INSERT of a write in truncate mode returns, with success or with an
\* error.
Insert(i) ==
    /\ rpc \in {"streaming", "writing"}
    /\ i \in DOMAIN writes
    /\ writes[i].pc = "insert"
    /\ \E ok \in BOOLEAN :
          /\ SetWrite(i, AfterBody(writes[i], "insert", ok,
                                   AfterChecksOf(tasks[i], WriterFnOf(op.kind))))
          /\ warehouse' = [warehouse EXCEPT ![i] = StatementEffect(@, "insert", ok)]
    /\ UNCHANGED <<rpc, parallelism, op, current_pk, tasks, ret, detVars, loadVars, upVars, dirVars>>

\* The after checks of a write return.
AfterChecks(i) ==
    /\ rpc \in {"streaming", "writing"}
    /\ i \in DOMAIN writes
    /\ writes[i].pc = "after"
    /\ \E check_results \in RunChecksOutcomes(ChecksOf(tasks[i])[2]) :
          SetWrite(i, AfterAfterChecks(writes[i], check_results))
    /\ UNCHANGED <<rpc, parallelism, op, current_pk, tasks, ret, warehouse, detVars, loadVars, upVars, dirVars>>

\* PartitionWriteStats of a write that returned Ok: the invariant report is
\* None without run_invariants.
StatsOfWrite(item, w, run_invariants) ==
    [query_name |-> item[1],
     version |-> Unwrap(get_version_for_date(Queries[item[1]],
                                             to_naive_date(item[2]))).version,
     partition_key |-> item[2],
     invariant_report |-> IF run_invariants
                          THEN Some([before |-> w.before, after |-> w.after])
                          ELSE None]

\* RunFailure of a write that returned an error.
FailureOfWrite(item, w) ==
    [query_name |-> item[1], partition_key |-> item[2], error |-> w.result]

\* ResultsWhere that loses the writes aborted by a failed invariant.
ResultsWhere_DropInvariantFailed(done, ws, want) ==
    SelectSeq(done, LAMBDA i : /\ (ws[i].result = "Ok") = want
                               /\ ws[i].result # "InvariantFailed")

\* The subsequence of the completed writes whose results are Ok (want = TRUE)
\* or errors (want = FALSE).
ResultsWhere(done, ws, want) ==
    SelectSeq(done, LAMBDA i : (ws[i].result = "Ok") = want)

\* for (pk, result) in results { Ok(s) => stats.push(s), .. }
StatsOf(done, items, ws) ==
    [k \in 1..Len(ResultsWhere(done, ws, TRUE)) |->
        StatsOfWrite(items[ResultsWhere(done, ws, TRUE)[k]],
                     ws[ResultsWhere(done, ws, TRUE)[k]], TRUE)]

\* for (pk, result) in results { .. Err(e) => failures.push(RunFailure {..}) }
FailuresOf(done, items, ws) ==
    [k \in 1..Len(ResultsWhere(done, ws, FALSE)) |->
        FailureOfWrite(items[ResultsWhere(done, ws, FALSE)[k]],
                       ws[ResultsWhere(done, ws, FALSE)[k]])]

\* The stream ends: every item was pulled and every write completed.  The
\* stream is polled for its end only while fewer than parallelism futures
\* are in progress.  The operation returns Ok(RunReport).
Collect ==
    /\ rpc = "streaming"
    /\ Len(writes) = Len(tasks)
    /\ InFlight = {}
    /\ CanPull(0, parallelism)
    /\ rpc' = "returned"
    /\ ret' = [status |-> "Ok",
               stats |-> StatsOf(results, tasks, writes),
               failures |-> FailuresOf(results, tasks, writes)]
    /\ UNCHANGED <<parallelism, op, current_pk, tasks, writes, results, warehouse, detVars, loadVars, upVars, dirVars>>

----------------------------------------------------------------------------
\* Direct calls of the writer

\* One of the public functions of PartitionWriter is called for a query and a
\* partition key, and runs up to its first call to the warehouse.
WriterCall(fn, query_name, partition_key) ==
    /\ rpc = "ready"
    /\ op' = [kind |-> fn, query_name |-> query_name, from |-> partition_key,
              to |-> partition_key, interval |-> None]
    /\ tasks' = << <<query_name, partition_key>> >>
    /\ writes' = << WriteStart(<<query_name, partition_key>>, fn) >>
    /\ results' = IF WriteStart(<<query_name, partition_key>>, fn).pc = "done"
                  THEN <<1>> ELSE <<>>
    /\ warehouse' = <<"untouched">>
    /\ rpc' = "writing"
    /\ UNCHANGED <<parallelism, current_pk, ret, detVars, loadVars, upVars, dirVars>>

\* Runner::run_query_partition: the query is looked up, an unknown name is
\* answered with QueryNotFound, else write_partition(query, partition_key) is
\* called.
RunQueryPartition(query_name, partition_key) ==
    /\ rpc = "ready"
    /\ op' = [kind |-> "run_query_partition", query_name |-> query_name,
              from |-> partition_key, to |-> partition_key, interval |-> None]
    /\ IF query_name \notin QueryNames
       THEN /\ rpc' = "returned"
            /\ ret' = [status |-> "QueryNotFound", stats |-> <<>>, failures |-> <<>>]
            /\ UNCHANGED <<tasks, writes, results, warehouse>>
       ELSE /\ tasks' = << <<query_name, partition_key>> >>
            /\ warehouse' = <<"untouched">>
            /\ writes' = << WriteStart(<<query_name, partition_key>>, "write_partition") >>
            /\ results' = IF WriteStart(<<query_name, partition_key>>,
                                        "write_partition").pc = "done"
                          THEN <<1>> ELSE <<>>
            /\ rpc' = "writing"
            /\ UNCHANGED ret
    /\ UNCHANGED <<parallelism, current_pk, detVars, loadVars, upVars, dirVars>>

\* The function returns: Ok(PartitionWriteStats), or the error of the write.
WriterReturn ==
    /\ rpc = "writing"
    /\ writes[1].pc = "done"
    /\ rpc' = "returned"
    /\ ret' = [status |-> writes[1].result,
               stats |-> IF writes[1].result = "Ok"
                         THEN <<StatsOfWrite(tasks[1], writes[1],
                                             RunInvariantsOf(op.kind))>>
                         ELSE <<>>,
               failures |-> <<>>]
    /\ UNCHANGED <<parallelism, op, current_pk, tasks, writes, results, warehouse, detVars, loadVars, upVars, dirVars>>

----------------------------------------------------------------------------
\* Result<T>

Ok(x) == [ok |-> TRUE, value |-> x, error |-> "none"]

Err(e) == [ok |-> FALSE, value |-> <<>>, error |-> e]

----------------------------------------------------------------------------
\* VariableResolver (src/src/dsl/resolver.rs)

\* A text the variable pattern does not match.
PlainText == <<"text">>

\* The text ${{ versions.n.field }}.
VersionRef(n, field) == <<"versions", n, field>>

\* VARIABLE_PATTERN.captures(ref_str): the digits and the word of the text,
\* if the pattern matches.
Captures(ref_str) ==
    IF Len(ref_str) = 3 /\ ref_str[1] = "versions"
    THEN Some([version |-> ref_str[2], field |-> ref_str[3]])
    ELSE None

\* extract_version_ref: the version number of the reference, whatever the
\* word after it.
extract_version_ref(ref_str) ==
    IF ~IsSome(Captures(ref_str)) THEN Err("InvalidVersionRef")
    ELSE Ok(Unwrap(Captures(ref_str)).version)

\* extract_invariants_version_ref: the version number of the reference,
\* whose word must be `invariants`.
extract_invariants_version_ref(ref_str) ==
    IF ~IsSome(Captures(ref_str)) THEN Err("InvalidVersionRef")
    ELSE IF Unwrap(Captures(ref_str)).field # "invariants"
    THEN Err("VariableResolution")
    ELSE Ok(Unwrap(Captures(ref_str)).version)

\* Schema::from_fields
Schema_from_fields(fields) == [fields |-> fields]

\* for name in &ext.remove { fields.retain(|f| &f.name != name) }
RECURSIVE RemoveNames(_, _)
RemoveNames(fields, names) ==
    IF names = <<>> THEN fields
    ELSE RemoveNames(SelectSeq(fields, LAMBDA f : f.name # Head(names)),
                     Tail(names))

\* if let Some(field) = fields.iter_mut().find(|f| f.name == modified.name)
\*     { *field = modified.clone() }
ReplaceFirst(items, modified) ==
    LET found == {i \in DOMAIN items : items[i].name = modified.name}
    IN  IF found = {} THEN items
        ELSE [items EXCEPT ![CHOOSE i \in found : \A j \in found : i <= j] = modified]

\* for modified in &ext.modify { .. }
RECURSIVE ModifyItems(_, _)
ModifyItems(items, modify) ==
    IF modify = <<>> THEN items
    ELSE ModifyItems(ReplaceFirst(items, Head(modify)), Tail(modify))

\* The steps of resolve_extended_schema in the order add, modify, remove.
ApplyExtension_AddFirst(fields, ext) ==
    RemoveNames(ModifyItems(fields \o ext.add, ext.modify), ext.remove)

\* The three steps of resolve_extended_schema on the fields of the base:
\* remove, then modify, then add.
ApplyExtension(fields, ext) ==
    ModifyItems(RemoveNames(fields, ext.remove), ext.modify) \o ext.add

\* resolve_extended_schema
resolve_extended_schema(ext, resolved_versions) ==
    IF ~extract_version_ref(ext.base).ok THEN extract_version_ref(ext.base)
    ELSE IF extract_version_ref(ext.base).value \notin DOMAIN resolved_versions
    THEN Err("InvalidVersionRef")
    ELSE Ok(Schema_from_fields(
            ApplyExtension(resolved_versions[extract_version_ref(ext.base).value].fields,
                           ext)))

\* resolve_schema
resolve_schema(schema_ref, resolved_versions) ==
    CASE schema_ref.kind = "Inline" -> Ok(Schema_from_fields(schema_ref.fields))
      [] schema_ref.kind = "Reference" ->
            IF ~extract_version_ref(schema_ref.ref).ok
            THEN extract_version_ref(schema_ref.ref)
            ELSE IF extract_version_ref(schema_ref.ref).value \notin DOMAIN resolved_versions
            THEN Err("InvalidVersionRef")
            ELSE Ok(resolved_versions[extract_version_ref(schema_ref.ref).value])
      [] schema_ref.kind = "Extended" ->
            resolve_extended_schema(schema_ref.ext, resolved_versions)

\* The names of a list of names.
NamesOf(names) == {names[i] : i \in DOMAIN names}

\* resolve_extended_invariants
resolve_extended_invariants(ext, resolved_versions) ==
    IF ~extract_invariants_version_ref(ext.base).ok
    THEN extract_invariants_version_ref(ext.base)
    ELSE IF extract_invariants_version_ref(ext.base).value \notin DOMAIN resolved_versions
    THEN Err("InvalidVersionRef")
    ELSE LET base == resolved_versions[extract_invariants_version_ref(ext.base).value]
             kept == IF IsSome(ext.remove)
                     THEN [before |-> SelectSeq(base.before,
                               LAMBDA inv : inv.name \notin NamesOf(Unwrap(ext.remove).before)),
                           after |-> SelectSeq(base.after,
                               LAMBDA inv : inv.name \notin NamesOf(Unwrap(ext.remove).after))]
                     ELSE base
             modified == IF IsSome(ext.modify)
                         THEN [before |-> ModifyItems(kept.before, Unwrap(ext.modify).before),
                               after |-> ModifyItems(kept.after, Unwrap(ext.modify).after)]
                         ELSE kept
         IN  Ok(IF IsSome(ext.add)
                THEN [before |-> modified.before \o Unwrap(ext.add).before,
                      after |-> modified.after \o Unwrap(ext.add).after]
                ELSE modified)

\* InvariantCheck::validate of every check, the before checks first.
validate_invariants_def(def) ==
    IF \E i \in DOMAIN def.before : ~def.before[i].valid THEN Err("Validation")
    ELSE IF \E i \in DOMAIN def.after : ~def.after[i].valid THEN Err("Validation")
    ELSE Ok(<<>>)

\* InvariantsDef::default()
InvariantsDef_default == [before |-> <<>>, after |-> <<>>]

\* The match of resolve_invariants.
ResolveInvariantsMatch(inv_ref, resolved_versions) ==
    IF ~IsSome(inv_ref) THEN Ok(InvariantsDef_default)
    ELSE CASE Unwrap(inv_ref).kind = "Inline" -> Ok(Unwrap(inv_ref).def)
           [] Unwrap(inv_ref).kind = "Reference" ->
                 IF ~extract_invariants_version_ref(Unwrap(inv_ref).ref).ok
                 THEN extract_invariants_version_ref(Unwrap(inv_ref).ref)
                 ELSE IF extract_invariants_version_ref(Unwrap(inv_ref).ref).value
                            \notin DOMAIN resolved_versions
                 THEN Err("InvalidVersionRef")
                 ELSE Ok(resolved_versions[
                            extract_invariants_version_ref(Unwrap(inv_ref).ref).value])
           [] Unwrap(inv_ref).kind = "Extended" ->
                 resolve_extended_invariants(Unwrap(inv_ref).ext, resolved_versions)

\* resolve_invariants: the match, then the validation of its result.
resolve_invariants(inv_ref, resolved_versions) ==
    IF ~ResolveInvariantsMatch(inv_ref, resolved_versions).ok
    THEN ResolveInvariantsMatch(inv_ref, resolved_versions)
    ELSE IF ~validate_invariants_def(
                ResolveInvariantsMatch(inv_ref, resolved_versions).value).ok
    THEN Err("Validation")
    ELSE ResolveInvariantsMatch(inv_ref, resolved_versions)

----------------------------------------------------------------------------
\* QueryLoader::resolve_query (src/src/dsl/loader.rs)

\* VersionLess comparing the version numbers only.
VersionLess_ByVersion(a, b) == a.version < b.version

\* a.effective_from.cmp(&b.effective_from).then_with(|| a.version.cmp(&b.version))
\* is Less
VersionLess(a, b) ==
    \/ a.effective_from < b.effective_from
    \/ a.effective_from = b.effective_from /\ a.version < b.version

\* x placed in a sorted list, behind the items that are not greater.
RECURSIVE InsertSorted(_, _)
InsertSorted(sorted, x) ==
    IF sorted = <<>> THEN <<x>>
    ELSE IF VersionLess(x, Head(sorted)) THEN <<x>> \o sorted
    ELSE <<Head(sorted)>> \o InsertSorted(Tail(sorted), x)

\* raw.versions.sort_by(..): a stable sort.
RECURSIVE SortVersions(_)
SortVersions(vs) ==
    IF vs = <<>> THEN <<>>
    ELSE InsertSorted(SortVersions(SubSeq(vs, 1, Len(vs) - 1)), vs[Len(vs)])

\* HashMap::insert
MapInsert(map, key, value) ==
    [k \in DOMAIN map \cup {key} |-> IF k = key THEN value ELSE map[k]]

\* Field { name, bq_type, .. }
Field(name, bq_type) == [name |-> name, bq_type |-> bq_type]

\* InvariantDef { name, severity, check, .. }: valid tells whether
\* check.validate() is Ok.
InvariantDef(name, severity, valid) ==
    [name |-> name, severity |-> severity, valid |-> valid]

\* ExtendedSchema { base, add, modify, remove }
ExtendedSchema(base, remove, modify, add) ==
    [base |-> base, remove |-> remove, modify |-> modify, add |-> add]

\* SchemaRef::Inline, SchemaRef::Reference, SchemaRef::Extended
SchemaInline(fields) ==
    [kind |-> "Inline", fields |-> fields, ref |-> PlainText,
     ext |-> ExtendedSchema(PlainText, <<>>, <<>>, <<>>)]

SchemaReference(ref_str) ==
    [kind |-> "Reference", fields |-> <<>>, ref |-> ref_str,
     ext |-> ExtendedSchema(PlainText, <<>>, <<>>, <<>>)]

SchemaExtended(ext) ==
    [kind |-> "Extended", fields |-> <<>>, ref |-> PlainText, ext |-> ext]

\* ExtendedInvariants { base, add, modify, remove }
ExtendedInvariants(base, remove, modify, add) ==
    [base |-> base, remove |-> remove, modify |-> modify, add |-> add]

\* InvariantsRef::Inline, InvariantsRef::Reference, InvariantsRef::Extended
InvariantsInline(def) ==
    [kind |-> "Inline", def |-> def, ref |-> PlainText,
     ext |-> ExtendedInvariants(PlainText, None, None, None)]

InvariantsReference(ref_str) ==
    [kind |-> "Reference", def |-> InvariantsDef_default, ref |-> ref_str,
     ext |-> ExtendedInvariants(PlainText, None, None, None)]

InvariantsExtended(ext) ==
    [kind |-> "Extended", def |-> InvariantsDef_default, ref |-> PlainText,
     ext |-> ext]

\* RawVersion { version, effective_from, schema, invariants, .. }
RawVersion(version, effective_from, schema, invariants) ==
    [version |-> version, effective_from |-> effective_from,
     schema |-> schema, invariants |-> invariants]

\* The words a reference can carry after the version number.
RefFields == {"schema", "invariants", "bogus"}

\* The reference texts of the declarations.
Refs ==
    {PlainText} \cup {VersionRef(n, f) : n \in 1..MaxVersions, f \in RefFields}

\* The schemas of the declarations: inline lists of fields (one of them with
\* a name twice), references, and extensions.
InlineFieldLists ==
    {<<>>,
     <<Field("a", "T1"), Field("b", "T1")>>,
     <<Field("b", "T1"), Field("a", "T1")>>,
     <<Field("a", "T1"), Field("a", "T1")>>}

Removes == {<<>>, <<"a">>}

Modifies == {<<>>, <<Field("a", "T2")>>, <<Field("b", "T2")>>}

Adds == {<<>>, <<Field("c", "T1")>>, <<Field("a", "T3")>>}

SchemaRefs ==
    {SchemaInline(fields) : fields \in InlineFieldLists}
    \cup {SchemaReference(r) : r \in Refs}
    \cup {SchemaExtended(ExtendedSchema(r, remove, modify, add)) :
            r \in Refs, remove \in Removes, modify \in Modifies, add \in Adds}

\* The invariants of the declarations: none, inline (valid or not),
\* references, and extensions.
InlineInvariants ==
    {[before |-> <<InvariantDef("i1", "Error", TRUE)>>, after |-> <<>>],
     [before |-> <<InvariantDef("i1", "Error", FALSE)>>, after |-> <<>>]}

InvariantsRefs ==
    {None}
    \cup {Some(InvariantsInline(def)) : def \in InlineInvariants}
    \cup {Some(InvariantsReference(r)) : r \in Refs}
    \cup {Some(InvariantsExtended(ExtendedInvariants(r, remove, None, add))) :
            r \in Refs,
            remove \in {None, Some([before |-> <<"i1">>, after |-> <<>>])},
            add \in {None, Some([before |-> <<>>,
                                 after |-> <<InvariantDef("i2", "Warning", TRUE)>>])}}

\* The versions a declaration lists: any schema with plain invariants, or a
\* plain schema with any invariants.
RichVersions ==
    {RawVersion(n, d, schema, None) :
        n \in 1..MaxVersions, d \in Dates, schema \in SchemaRefs}
    \cup {RawVersion(n, d, SchemaInline(<<Field("a", "T1")>>), inv) :
        n \in 1..MaxVersions, d \in Dates, inv \in InvariantsRefs}

\* The versions a declaration lists next to one of RichVersions.
BasicVersions ==
    {RawVersion(n, d, schema, inv) :
        n \in 1..MaxVersions, d \in Dates,
        schema \in {SchemaInline(<<Field("a", "T1"), Field("b", "T1")>>),
                    SchemaInline(<<Field("a", "T1"), Field("a", "T1")>>),
                    SchemaReference(VersionRef(MaxVersions, "schema"))},
        inv \in {None, Some(InvariantsInline(
                    [before |-> <<InvariantDef("i1", "Error", TRUE)>>,
                     after |-> <<>>]))}}

\* raw.versions of the declarations, in the order the file lists them.
RawQueries ==
    {<<>>}
    \cup {<<v>> : v \in RichVersions}
    \cup {<<v, w>> : v \in BasicVersions, w \in RichVersions}
    \cup {<<v, w>> : v \in RichVersions, w \in BasicVersions}

\* resolve_query up to its loop: the maps and the vector are empty and
\* raw.versions is sorted.
ResolveQuery ==
    /\ lpc = "idle"
    /\ \E raw \in RawQueries :
          /\ declared_versions' = raw
          /\ raw_versions' = SortVersions(raw)
    /\ resolved_schemas' = <<>>
    /\ resolved_invariants' = <<>>
    /\ versions' = <<>>
    /\ lpc' = "resolving"
    /\ UNCHANGED <<load_result, detVars, runVars, upVars, dirVars>>

\* One turn of `for raw_version in raw.versions`: the schema, then the
\* invariants; an error of either is returned with ?; else both are recorded
\* under the version number and the VersionDef is pushed.
ResolveVersion ==
    /\ lpc = "resolving"
    /\ Len(versions) < Len(raw_versions)
    /\ LET raw_version == raw_versions[Len(versions) + 1]
           schema == resolve_schema(raw_version.schema, resolved_schemas)
           invariants == resolve_invariants(raw_version.invariants, resolved_invariants)
       IN  IF ~schema.ok
           THEN /\ lpc' = "returned"
                /\ load_result' = Err(schema.error)
                /\ UNCHANGED <<resolved_schemas, resolved_invariants, versions>>
           ELSE IF ~invariants.ok
           THEN /\ lpc' = "returned"
                /\ load_result' = Err(invariants.error)
                /\ UNCHANGED <<resolved_schemas, resolved_invariants, versions>>
           ELSE /\ resolved_schemas' =
                      MapInsert(resolved_schemas, raw_version.version, schema.value)
                /\ resolved_invariants' =
                      MapInsert(resolved_invariants, raw_version.version, invariants.value)
                /\ versions' = Append(versions,
                      [version |-> raw_version.version,
                       effective_from |-> raw_version.effective_from,
                       schema |-> schema.value,
                       invariants |-> invariants.value])
                /\ UNCHANGED <<lpc, load_result>>
    /\ UNCHANGED <<declared_versions, raw_versions, detVars, runVars, upVars, dirVars>>

\* The end of the loop: Ok(QueryDef { versions, .. }).
ReturnQuery ==
    /\ lpc = "resolving"
    /\ Len(versions) = Len(raw_versions)
    /\ lpc' = "returned"
    /\ load_result' = Ok([versions |-> versions])
    /\ UNCHANGED <<declared_versions, raw_versions, resolved_schemas, resolved_invariants, versions, detVars, runVars, upVars, dirVars>>

\* The loader before resolve_query is called.
LoadInit ==
    /\ lpc = "idle"
    /\ declared_versions = <<>>
    /\ raw_versions = <<>>
    /\ resolved_schemas = <<>>
    /\ resolved_invariants = <<>>
    /\ versions = <<>>
    /\ load_result = Err("none")

\* The upstream pass before detect_upstream_changed is called.
UpInit ==
    /\ up_stored = [partition_date |-> 0, upstream_states |-> <<>>]
    /\ all_states = <<>>
    /\ up_calls = <<>>

\* The loader before load_dir_with_contents is called.
DirInit ==
    /\ dir_pc = "idle"
    /\ yaml_files = <<>>
    /\ file_idx = 1
    /\ queries = <<>>
    /\ contents = {}
    /\ dir_result = Err("none")

\* The detector before detect is called.
DetInit ==
    /\ dpc = "idle"
    /\ stored_states = <<>>
    /\ from_date = 0
    /\ to_date = 0
    /\ report = EmptyBag

\* The runner before Runner::new is called.
RunInit ==
    /\ rpc = "new"
    /\ parallelism = 0
    /\ op = [kind |-> "none", query_name |-> "", from |-> 0, to |-> 0,
             interval |-> None]
    /\ current_pk = 0
    /\ tasks = <<>>
    /\ writes = <<>>
    /\ results = <<>>
    /\ ret = [status |-> "none", stats |-> <<>>, failures |-> <<>>]
    /\ warehouse = <<>>

Init == DetInit /\ RunInit /\ LoadInit /\ UpInit /\ DirInit

Next == Detect

Spec == Init /\ [][Next]_vars

\* The runner: its construction, one operation, and the writes of it.
RunNext ==
    \/ \E env \in EnvValues : RunnerNew(env)
    \/ \E p \in 0..MaxPar : WithParallelism(p)
    \/ \E query_name \in AskedNames, from \in Dates, to \in Dates, interval \in Strides : BackfillPartitions(query_name, from, to, interval)
    \/ EnumeratePartition
    \/ \E partition_key \in Dates : RunForPartition(partition_key)
    \/ Dispatch
    \/ \E i \in 1..MaxPartitions : BeforeChecks(i)
    \/ \E i \in 1..MaxPartitions : Body(i)
    \/ \E i \in 1..MaxPartitions : Insert(i)
    \/ \E i \in 1..MaxPartitions : AfterChecks(i)
    \/ Collect
    \/ \E fn \in WriterFns, query_name \in QueryNames, partition_key \in Dates : WriterCall(fn, query_name, partition_key)
    \/ \E query_name \in AskedNames, partition_key \in Dates : RunQueryPartition(query_name, partition_key)
    \/ WriterReturn

RunSpec == Init /\ [][RunNext]_vars

\* The executor keeps polling: the enumeration loop runs on, the stream pulls
\* an item whenever it may, the warehouse answers every call of every write,
\* and the end of the stream is seen.
RunFairness ==
    /\ WF_vars(EnumeratePartition)
    /\ WF_vars(Dispatch)
    /\ \A i \in 1..MaxPartitions :
          WF_vars(BeforeChecks(i) \/ Body(i) \/ Insert(i) \/ AfterChecks(i))
    /\ WF_vars(Collect)

RunSpecFair == RunSpec /\ RunFairness

LoadNext ==
    \/ ResolveQuery
    \/ ResolveVersion
    \/ ReturnQuery

LoadSpec == Init /\ [][LoadNext]_vars

----------------------------------------------------------------------------
\* The upstream pass: DriftDetector::detect_upstream_changed

\* The upstream query names a stored state can record.
UpstreamNames == {"u1", "u2"}

\* One entry (upstream_name, recorded_time) of stored.upstream_states.
UpstreamEntries == [name : UpstreamNames, recorded_time : 1..MaxTime]

\* stored.upstream_states, a std HashMap: an instance is given as its entries
\* in the order in which this instance is iterated.  The order is arbitrary
\* (it follows the hash seed drawn when the map is built) and fixed for the
\* instance; two maps are equal when they hold the same entries.
UpstreamMaps ==
    {m \in UNION {[1..n -> UpstreamEntries] : n \in 0..Cardinality(UpstreamNames)} :
        \A i, j \in DOMAIN m : m[i].name = m[j].name => i = j}

\* a == b for two HashMaps.
SameMap(a, b) == {a[i] : i \in DOMAIN a} = {b[i] : i \in DOMAIN b}

\* The fields of the PartitionStates of all_states that the pass reads.
UpstreamRows ==
    [query_name : UpstreamNames, partition_date : Dates,
     executed_at : 1..(MaxTime + 1)]

\* The all_states a caller passes.
AllStatesInputs == UNION {[1..n -> UpstreamRows] : n \in 0..MaxStored}

\* index.insert(key, state)
IndexInsert(index, key, state) ==
    [k \in DOMAIN index \cup {key} |-> IF k = key THEN state ELSE index[k]]

\* build_state_index: for each (query_name, partition_date) the row with the
\* greatest executed_at, the first of them in all_states when several have it.
RECURSIVE build_state_index(_)
build_state_index(states) ==
    IF states = <<>> THEN [k \in {} |-> <<>>]
    ELSE LET state == states[Len(states)]
             index == build_state_index(SubSeq(states, 1, Len(states) - 1))
             key   == <<state.query_name, state.partition_date>>
         IN  IF key \in DOMAIN index
                /\ index[key].executed_at >= state.executed_at
             THEN index
             ELSE IndexInsert(index, key, state)

\* The test with >= in place of >.
UpstreamIsNewer_OrEqual(upstream, recorded_time) ==
    upstream.executed_at >= recorded_time

\* if upstream.executed_at > *recorded_time
UpstreamIsNewer(upstream, recorded_time) ==
    upstream.executed_at > recorded_time

\* The loop of detect_upstream_changed_indexed over the entries from the i-th
\* on, in the iteration order of the map.
RECURSIVE UpstreamLoop(_, _, _, _)
UpstreamLoop(entries, i, partition_date, state_index) ==
    IF i > Len(entries) THEN None
    ELSE LET key == <<entries[i].name, partition_date>>
         IN  IF key \in DOMAIN state_index
                /\ UpstreamIsNewer(state_index[key], entries[i].recorded_time)
             THEN Some(entries[i].name)
             ELSE UpstreamLoop(entries, i + 1, partition_date, state_index)

\* detect_upstream_changed_indexed
detect_upstream_changed_indexed(stored, state_index) ==
    UpstreamLoop(stored.upstream_states, 1, stored.partition_date, state_index)

\* detect_upstream_changed (its query argument is not read)
detect_upstream_changed(stored, states) ==
    detect_upstream_changed_indexed(stored, build_state_index(states))

\* One call as up_calls records it: the map instance passed and the result.
UpCall(stored, states) ==
    [upstream_states |-> stored.upstream_states,
     result          |-> detect_upstream_changed(stored, states)]

\* A first call of detect_upstream_changed(query, stored, all_states).
DetectUpstreamChanged ==
    /\ up_calls = <<>>
    /\ \E d \in Dates, m \in UpstreamMaps, states \in AllStatesInputs :
          LET stored == [partition_date |-> d, upstream_states |-> m]
          IN  /\ up_stored' = stored
              /\ all_states' = states
              /\ up_calls' = <<UpCall(stored, states)>>
    /\ UNCHANGED <<detVars, runVars, loadVars, dirVars>>

\* A second call with the same PartitionState object and the same all_states.
DetectUpstreamAgain ==
    /\ Len(up_calls) = 1
    /\ up_calls' = Append(up_calls, UpCall(up_stored, all_states))
    /\ UNCHANGED <<up_stored, all_states, detVars, runVars, loadVars, dirVars>>

\* A second call with the same all_states and an equal PartitionState that
\* was built anew (read again from the state table, or in another run of the
\* program): its upstream_states is another HashMap of the same entries.
DetectUpstreamReloaded ==
    /\ Len(up_calls) = 1
    /\ \E m \in UpstreamMaps :
          /\ SameMap(m, up_stored.upstream_states)
          /\ up_calls' = Append(up_calls,
                 UpCall([up_stored EXCEPT !.upstream_states = m], all_states))
    /\ UNCHANGED <<up_stored, all_states, detVars, runVars, loadVars, dirVars>>

UpNext ==
    \/ DetectUpstreamChanged
    \/ DetectUpstreamAgain
    \/ DetectUpstreamReloaded

UpSpec == Init /\ [][UpNext]_vars

----------------------------------------------------------------------------
\* QueryLoader::load_dir_with_contents (src/src/dsl/loader.rs)

\* The number of declaration files of a directory.
MaxFiles == 2

\* raw.versions of the files of a directory: one version; one version and a
\* reference to it; a reference to a version that is not resolved yet; one
\* version followed by such a reference.
GoodVersions ==
    {<<RawVersion(1, 0, SchemaInline(<<Field("a", "T1"), Field("b", "T1")>>), None)>>,
     <<RawVersion(2, 1, SchemaReference(VersionRef(1, "schema")), None),
       RawVersion(1, 0, SchemaInline(<<Field("a", "T1"), Field("b", "T1")>>), None)>>}

BadVersions ==
    {<<RawVersion(1, 0, SchemaReference(VersionRef(2, "schema")), None)>>,
     <<RawVersion(1, 0, SchemaInline(<<Field("a", "T1"), Field("b", "T1")>>), None),
       RawVersion(2, 1, SchemaReference(VersionRef(2, "schema")), None)>>}

\* The text of a declaration file, given by what the loader reads in it: its
\* include directive (none, one that expands, one that includes itself),
\* whether the text is well-formed YAML, and the name and versions it
\* declares.
FileContents ==
    [include  : {"none", "file", "cycle"},
     yaml     : {"ok", "bad"},
     name     : QueryNames,
     versions : GoodVersions \cup BadVersions]

\* FileLoader::load_dir(path, "yaml"): the files that could be read, in the
\* order of the glob; a file that cannot be read is left out.
YamlFileLists == UNION {[1..n -> FileContents] : n \in 0..MaxFiles}

\* YamlPreprocessor::process: the include directive replaced by the text of
\* the included file; an include cycle is an error.
Preprocess(content) ==
    IF content.include = "cycle" THEN Err("DslParse")
    ELSE Ok([content EXCEPT !.include = "none"])

\* serde_yaml::from_str::<RawQueryDef>(&processed)
ParseYaml(processed) ==
    IF processed.yaml = "bad" THEN Err("DslParse")
    ELSE Ok([name |-> processed.name, versions |-> processed.versions])

\* contents.insert(name, processed)
ContentsInsert(map, name, processed) ==
    {e \in map : e[1] # name} \cup {<<name, processed>>}

\* The call of load_dir_with_contents up to its loop: FileLoader::load_dir
\* returns the files, or an error that is returned as DslParse.
LoadDir ==
    /\ dir_pc = "idle"
    /\ \E glob_ok \in BOOLEAN :
          IF glob_ok
          THEN /\ \E files \in YamlFileLists : yaml_files' = files
               /\ dir_pc' = "loop"
               /\ UNCHANGED dir_result
          ELSE /\ dir_pc' = "returned"
               /\ dir_result' = Err("DslParse")
               /\ UNCHANGED yaml_files
    /\ UNCHANGED <<file_idx, queries, contents, detVars, runVars, loadVars, upVars>>

\* One turn of `for file in yaml_files` up to the call of resolve_query: the
\* text is preprocessed and parsed, an error of either is returned with ?;
\* else resolve_query(raw) starts (its maps empty, raw.versions sorted).
ProcessFile ==
    /\ dir_pc = "loop"
    /\ file_idx <= Len(yaml_files)
    /\ LET processed == Preprocess(yaml_files[file_idx])
           raw == ParseYaml(processed.value)
       IN  IF ~processed.ok
           THEN /\ dir_pc' = "returned"
                /\ dir_result' = Err(processed.error)
                /\ UNCHANGED loadVars
           ELSE IF ~raw.ok
           THEN /\ dir_pc' = "returned"
                /\ dir_result' = Err(raw.error)
                /\ UNCHANGED loadVars
           ELSE /\ dir_pc' = "resolving"
                /\ declared_versions' = raw.value.versions
                /\ raw_versions' = SortVersions(raw.value.versions)
                /\ resolved_schemas' = <<>>
                /\ resolved_invariants' = <<>>
                /\ versions' = <<>>
                /\ lpc' = "resolving"
                /\ UNCHANGED <<dir_result, load_result>>
    /\ UNCHANGED <<yaml_files, file_idx, queries, contents, detVars, runVars, upVars>>

\* CollectFile that leaves out a file whose resolution failed and goes on
\* with the next one.
CollectFile_SkipFailed ==
    /\ dir_pc = "resolving"
    /\ lpc = "returned"
    /\ LET processed == Preprocess(yaml_files[file_idx]).value
       IN  IF load_result.ok
           THEN /\ queries' = Append(queries,
                      [name |-> processed.name,
                       versions |-> load_result.value.versions])
                /\ contents' = ContentsInsert(contents, processed.name, processed)
           ELSE UNCHANGED <<queries, contents>>
    /\ file_idx' = file_idx + 1
    /\ dir_pc' = "loop"
    /\ lpc' = "idle"
    /\ UNCHANGED <<dir_result, yaml_files, declared_versions, raw_versions, resolved_schemas, resolved_invariants, versions, load_result, detVars, runVars, upVars>>

\* The rest of the turn, once resolve_query returned: its error is returned
\* with ?; else the query is pushed and its processed text is recorded under
\* its name.
CollectFile ==
    /\ dir_pc = "resolving"
    /\ lpc = "returned"
    /\ LET processed == Preprocess(yaml_files[file_idx]).value
       IN  IF load_result.ok
           THEN /\ queries' = Append(queries,
                      [name |-> processed.name,
                       versions |-> load_result.value.versions])
                /\ contents' = ContentsInsert(contents, processed.name, processed)
                /\ file_idx' = file_idx + 1
                /\ dir_pc' = "loop"
                /\ UNCHANGED dir_result
           ELSE /\ dir_pc' = "returned"
                /\ dir_result' = Err(load_result.error)
                /\ UNCHANGED <<queries, contents, file_idx>>
    /\ lpc' = "idle"
    /\ UNCHANGED <<yaml_files, declared_versions, raw_versions, resolved_schemas, resolved_invariants, versions, load_result, detVars, runVars, upVars>>

\* The end of the loop: Ok((queries, contents)).
ReturnDir ==
    /\ dir_pc = "loop"
    /\ file_idx > Len(yaml_files)
    /\ dir_pc' = "returned"
    /\ dir_result' = Ok([queries |-> queries, contents |-> contents])
    /\ UNCHANGED <<yaml_files, file_idx, queries, contents, detVars, runVars, loadVars, upVars>>

DirNext ==
    \/ LoadDir
    \/ ProcessFile
    \/ ResolveVersion
    \/ ReturnQuery
    \/ CollectFile
    \/ ReturnDir

DirSpec == Init /\ [][DirNext]_vars

\* The detector over a declaration with one version number twice.
TwiceNext == DetectTwice

TwiceSpec == Init /\ [][TwiceNext]_vars

----------------------------------------------------------------------------
\* Properties of detect

\* The entries of the report for one (query, date).
DriftsFor(q, d) ==
    {p \in BagToSet(report) : p.query_name = q /\ p.partition_key = d}

\* The stored rows passed for one (query, date).
RowsFor(q, d) ==
    {stored_states[i] : i \in {j \in DOMAIN stored_states :
        /\ stored_states[j].query_name = q
        /\ stored_states[j].partition_date = d}}

\* The dates of the detection window.
Window == from_date..to_date

HasVersion(q, d) == IsSome(get_version_for_date(Queries[q], d))

\* The checksums of the current declaration of q for date d.
CurrentChecksums(q, d) ==
    Checksums_from_version(Unwrap(get_version_for_date(Queries[q], d)),
                           YamlOf(q), Today)

ChecksumsMatch(S, q, d) ==
    /\ S.sql_checksum = CurrentChecksums(q, d).sql
    /\ S.schema_checksum = CurrentChecksums(q, d).schema
    /\ S.yaml_checksum = CurrentChecksums(q, d).yaml

\* C1 as stated: every stored state with status Failed, of a known query and
\* a date in the window, has its partition reported as Failed.
C1_FailedReportedFailed ==
    dpc = "ok" =>
        \A i \in DOMAIN stored_states :
            LET S == stored_states[i] IN
            (S.query_name \in QueryNames /\ S.partition_date \in Window
                /\ S.status = "Failed")
            => /\ DriftsFor(S.query_name, S.partition_date) # {}
               /\ \A p \in DriftsFor(S.query_name, S.partition_date) :
                     p.state = "Failed"

\* C1 amended: a stored state with status Failed, of a known query and a date
\* in the window for which the query has an effective version, and not
\* accompanied by a stored state of the same key that did not fail, has its
\* partition reported as Failed, whatever its checksums and version are.
C1_FailedStaysFailed ==
    dpc = "ok" =>
        \A i \in DOMAIN stored_states :
            LET S == stored_states[i] IN
            (/\ S.query_name \in QueryNames
             /\ S.partition_date \in Window
             /\ HasVersion(S.query_name, S.partition_date)
             /\ \A T \in RowsFor(S.query_name, S.partition_date) :
                    T.status = "Failed")
            => /\ DriftsFor(S.query_name, S.partition_date) # {}
               /\ \A p \in DriftsFor(S.query_name, S.partition_date) :
                     p.state = "Failed"

\* A failed stored state whose schema checksum and version both differ from
\* the current declaration's is reported as Failed.
C1_Witness ==
    /\ dpc = "ok"
    /\ \E i \in DOMAIN stored_states :
          LET S == stored_states[i]
              q == S.query_name
              d == S.partition_date
          IN  /\ q \in QueryNames
              /\ d \in Window
              /\ HasVersion(q, d)
              /\ S.status = "Failed"
              /\ S.schema_checksum # CurrentChecksums(q, d).schema
              /\ S.version # Unwrap(get_version_for_date(Queries[q], d)).version
              /\ \E p \in DriftsFor(q, d) : p.state = "Failed"

\* C2: a (query, date) of the window with no stored state is reported as
\* NeverRun, with no executed version and no executed SQL, and with the
\* current SQL exactly when the query has a version for the date.
C2_NeverRunWithoutStored ==
    dpc = "ok" =>
        \A q \in QueryNames, d \in Window :
            RowsFor(q, d) = {}
            => /\ DriftsFor(q, d) # {}
               /\ \A p \in DriftsFor(q, d) :
                     /\ p.state = "NeverRun"
                     /\ p.executed_version = None
                     /\ p.executed_sql_b64 = None
                     /\ IsSome(p.current_sql) <=> HasVersion(q, d)

\* A report holding a partition without stored state that has its current
\* SQL and one, of a date before every version, that has none.
C2_Witness ==
    /\ dpc = "ok"
    /\ \E q \in QueryNames, d \in Window :
          /\ RowsFor(q, d) = {}
          /\ HasVersion(q, d)
          /\ \E p \in DriftsFor(q, d) : p.state = "NeverRun" /\ IsSome(p.current_sql)
    /\ \E q \in QueryNames, d \in Window :
          /\ RowsFor(q, d) = {}
          /\ ~HasVersion(q, d)
          /\ \E p \in DriftsFor(q, d) : p.state = "NeverRun" /\ p.current_sql = None

\* C3 as stated: a (query, date) with a stored state whose three checksums
\* equal the current declaration's is reported as Current with no current SQL.
C3_MatchingIsCurrent ==
    dpc = "ok" =>
        \A q \in QueryNames, d \in Window :
            (/\ HasVersion(q, d)
             /\ \E S \in RowsFor(q, d) : ChecksumsMatch(S, q, d))
            => /\ DriftsFor(q, d) # {}
               /\ \A p \in DriftsFor(q, d) :
                     p.state = "Current" /\ p.current_sql = None

\* C3 amended: a (query, date) whose stored states all have status Success,
\* the number of the effective version and the three checksums of the current
\* declaration is reported as Current with no current SQL.
C3_MatchingSuccessIsCurrent ==
    dpc = "ok" =>
        \A q \in QueryNames, d \in Window :
            (/\ HasVersion(q, d)
             /\ RowsFor(q, d) # {}
             /\ \A S \in RowsFor(q, d) :
                   /\ ChecksumsMatch(S, q, d)
                   /\ S.status = "Success"
                   /\ S.version = Unwrap(get_version_for_date(Queries[q], d)).version)
            => /\ DriftsFor(q, d) # {}
               /\ \A p \in DriftsFor(q, d) :
                     p.state = "Current" /\ p.current_sql = None

\* A partition with one successful stored state of the effective version and
\* matching checksums, reported as Current.
C3_Witness ==
    /\ dpc = "ok"
    /\ \E q \in QueryNames, d \in Window :
          /\ HasVersion(q, d)
          /\ \E S \in RowsFor(q, d) :
                /\ ChecksumsMatch(S, q, d)
                /\ S.status = "Success"
                /\ S.version = Unwrap(get_version_for_date(Queries[q], d)).version
          /\ \E p \in DriftsFor(q, d) : p.state = "Current" /\ p.current_sql = None

\* The state the classification table gives a successful stored state S
\* against the current declaration of (q, d).
TableState(S, q, d) ==
    LET v == Unwrap(get_version_for_date(Queries[q], d))
        schemaEq == S.schema_checksum = CurrentChecksums(q, d).schema
        sqlEq == S.sql_checksum = CurrentChecksums(q, d).sql
    IN  CASE ~schemaEq -> "SchemaChanged"
          [] schemaEq /\ ~sqlEq -> "SqlChanged"
          [] schemaEq /\ sqlEq /\ v.version # S.version -> "VersionUpgraded"
          [] schemaEq /\ sqlEq /\ v.version = S.version -> "Current"

\* C4: for a (query, date) with an effective version whose stored state (the
\* row the index of detect holds for the key) succeeded, the report has
\* exactly one entry, and its state is SchemaChanged if the schema checksums
\* differ, else SqlChanged if the sql checksums differ, else VersionUpgraded if
\* the versions differ, else Current.
C4_ClassificationPriority ==
    dpc = "ok" =>
        \A q \in QueryNames, d \in Window :
            LET st == MapGet(stored_map(stored_states), <<q, d>>) IN
            (HasVersion(q, d) /\ IsSome(st) /\ Unwrap(st).status = "Success")
            => /\ Cardinality(DriftsFor(q, d)) = 1
               /\ \A p \in DriftsFor(q, d) :
                     /\ CopiesIn(p, report) = 1
                     /\ p.state = TableState(Unwrap(st), q, d)
                     /\ p.state \in {"SchemaChanged", "SqlChanged",
                                     "VersionUpgraded", "Current"}

\* A successful stored state whose schema and sql checksums both differ,
\* reported as SchemaChanged.
C4_Witness ==
    /\ dpc = "ok"
    /\ \E q \in QueryNames, d \in Window :
          LET st == MapGet(stored_map(stored_states), <<q, d>>) IN
          /\ HasVersion(q, d)
          /\ IsSome(st)
          /\ Unwrap(st).status = "Success"
          /\ Unwrap(st).schema_checksum # CurrentChecksums(q, d).schema
          /\ Unwrap(st).sql_checksum # CurrentChecksums(q, d).sql
          /\ \E p \in DriftsFor(q, d) : p.state = "SchemaChanged"

\* The stored rows of a key that no other row of the key is executed after.
LatestRows(q, d) ==
    {S \in RowsFor(q, d) : \A T \in RowsFor(q, d) : T.executed_at <= S.executed_at}

\* C5: of several stored rows for one (query, date), the row classified is one
\* with the greatest executed_at, wherever it stands in the input: the
\* reported entry carries that row's executed SQL, its version and its
\* failure.
C5_LatestRowWins ==
    dpc = "ok" =>
        \A q \in QueryNames, d \in Window :
            (HasVersion(q, d) /\ RowsFor(q, d) # {})
            => \A p \in DriftsFor(q, d) :
                  \E S \in LatestRows(q, d) :
                      /\ p.executed_sql_b64 = S.executed_sql_b64
                      /\ p.executed_version = Some(S.version)
                      /\ (p.state = "Failed") <=> (S.status = "Failed")

----------------------------------------------------------------------------
\* Properties of the runner

\* The stride of the enumeration of the operation.
StrideOf == IF IsSome(op.interval) THEN Unwrap(op.interval) ELSE 1

\* The partition keys from op.from to op.to, inclusive, by the stride.
KeysFromTo ==
    IF op.from > op.to THEN {}
    ELSE {d \in op.from..op.to : (d - op.from) % StrideOf = 0}

BackfillReturnedOk ==
    rpc = "returned" /\ op.kind = "backfill" /\ ret.status = "Ok"

\* C6: when backfill_partitions returns Ok, the entries of stats and the
\* entries of failures are together as many as the partitions enumerated
\* from `from` to `to`, whichever writes succeeded or failed and in whichever
\* order they completed.
C6_BackfillTotality ==
    BackfillReturnedOk =>
        /\ Len(tasks) = Cardinality(KeysFromTo)
        /\ Len(ret.stats) + Len(ret.failures) = Len(tasks)

\* A backfill of two partitions returned with one success and one failure,
\* the second partition having completed before the first.
C6_Witness ==
    /\ BackfillReturnedOk
    /\ Len(tasks) = 2
    /\ results = <<2, 1>>
    /\ Len(ret.stats) = 1
    /\ Len(ret.failures) = 1

\* C7: once the partitions of a backfill of a known query are enumerated,
\* the backfill eventually returns Ok with every partition dispatched to
\* write_partition and with a RunFailure carrying the key of every partition
\* whose write failed.
C7_BackfillNeverHalts ==
    (rpc = "streaming" /\ op.kind = "backfill")
        ~> (/\ BackfillReturnedOk
            /\ Len(writes) = Len(tasks)
            /\ \A i \in DOMAIN writes :
                  writes[i].result # "Ok" =>
                      \E k \in DOMAIN ret.failures :
                          ret.failures[k].partition_key = tasks[i][2])

\* C8: at every moment the write_partition calls started and not completed
\* are at most `parallelism`.
C8_BoundedConcurrency ==
    op.kind \in {"backfill", "run_for_partition"} =>
        Cardinality(InFlight) <= parallelism

\* As many writes are in progress as the parallelism allows, and an item of
\* the stream waits.
C8_Witness ==
    /\ rpc = "streaming"
    /\ parallelism >= 1
    /\ Cardinality(InFlight) = parallelism
    /\ Len(writes) < Len(tasks)

\* C9: the parallelism of a constructed Runner is at least 1.
C9_ParallelismAtLeastOne == rpc # "new" => parallelism >= 1

\* C10: a write one of whose before checks came out Failed with severity
\* Error is aborted with InvariantFailed, and neither its body nor an after
\* check has been executed.
C10_BeforeErrorAborts ==
    \A i \in DOMAIN writes :
        (\E k \in DOMAIN writes[i].before :
            /\ writes[i].before[k].status = "Failed"
            /\ writes[i].before[k].severity = "Error")
        => /\ writes[i].pc = "done"
           /\ writes[i].result = "InvariantFailed"
           /\ \A c \in DOMAIN writes[i].calls :
                 writes[i].calls[c] \notin {"body", "delete", "insert", "after_checks"}

\* A write with two before checks, the first passed and the second failed
\* with severity Error, was aborted.
C10_Witness ==
    \E i \in DOMAIN writes :
        /\ Len(writes[i].before) = 2
        /\ writes[i].before[1].status = "Passed"
        /\ writes[i].before[2].status = "Failed"
        /\ writes[i].before[2].severity = "Error"
        /\ writes[i].result = "InvariantFailed"

\* The writer function of the operation under way.
WriterFn == WriterFnOf(op.kind)

\* The write i is complete, ran with run_invariants, and its body (the MERGE,
\* or the INSERT after the DELETE) was executed and did not fail.
BodySucceeded(i) ==
    /\ writes[i].pc = "done"
    /\ RunInvariantsOf(WriterFn)
    /\ \E c \in DOMAIN writes[i].calls :
          writes[i].calls[c] = (IF TruncateOf(WriterFn) THEN "insert" ELSE "body")
    /\ writes[i].result # "Warehouse"

\* C11: a write whose before checks passed and whose body succeeded returns
\* Ok, and its invariant report lists one result per after check, in order,
\* whatever the status and the severity of the results; the stats a returned
\* operation carries for the write hold that report.
C11_AfterFailuresReported ==
    \A i \in DOMAIN writes :
        BodySucceeded(i) =>
            /\ writes[i].result = "Ok"
            /\ Len(writes[i].after) = Len(ChecksOf(tasks[i])[2])
            /\ \A k \in DOMAIN writes[i].after :
                  writes[i].after[k].severity = ChecksOf(tasks[i])[2][k]
            /\ (rpc = "returned" /\ ret.status = "Ok") =>
                  \E s \in DOMAIN ret.stats :
                      /\ ret.stats[s].query_name = tasks[i][1]
                      /\ ret.stats[s].partition_key = tasks[i][2]
                      /\ ret.stats[s].invariant_report =
                            Some([before |-> writes[i].before,
                                  after |-> writes[i].after])

\* write_partition returned Ok with a report whose after check failed with
\* severity Error.
C11_Witness ==
    /\ rpc = "returned"
    /\ op.kind = "write_partition"
    /\ ret.status = "Ok"
    /\ Len(ret.stats) = 1
    /\ \E k \in DOMAIN Unwrap(ret.stats[1].invariant_report).after :
          /\ Unwrap(ret.stats[1].invariant_report).after[k].status = "Failed"
          /\ Unwrap(ret.stats[1].invariant_report).after[k].severity = "Error"

\* C12: a write for a partition date with no effective version fails with a
\* Partition error and has made no call to the warehouse, in merge and in
\* truncate mode; a direct call of the writer returns that error.
C12_NoVersionNoCall ==
    \A i \in DOMAIN writes :
        ~IsSome(get_version_for_date(Queries[tasks[i][1]], to_naive_date(tasks[i][2])))
        => /\ writes[i].pc = "done"
           /\ writes[i].result = "Partition"
           /\ writes[i].calls = <<>>
           /\ (rpc = "returned" /\ op.kind \in WriterFns) => ret.status = "Partition"

\* write_partition_truncate returned a Partition error for a date without a
\* version, with no call made.
C12_Witness ==
    /\ rpc = "returned"
    /\ op.kind = "write_partition_truncate"
    /\ ~IsSome(get_version_for_date(Queries[tasks[1][1]], to_naive_date(tasks[1][2])))
    /\ ret.status = "Partition"
    /\ writes[1].calls = <<>>

----------------------------------------------------------------------------
\* Properties of the loader

\* The version numbers a version of the declaration names: in its schema (a
\* Reference, or the base of an Extended) and in its invariants.
NamedVersions(raw_version) ==
    {Unwrap(Captures(r)).version :
        r \in {t \in
            (IF raw_version.schema.kind = "Reference" THEN {raw_version.schema.ref}
             ELSE IF raw_version.schema.kind = "Extended"
             THEN {raw_version.schema.ext.base} ELSE {})
            \cup
            (IF ~IsSome(raw_version.invariants) THEN {}
             ELSE IF Unwrap(raw_version.invariants).kind = "Reference"
             THEN {Unwrap(raw_version.invariants).ref}
             ELSE IF Unwrap(raw_version.invariants).kind = "Extended"
             THEN {Unwrap(raw_version.invariants).ext.base} ELSE {}) :
            IsSome(Captures(t))}}

\* The k-th version in sort order names a version that no version before it
\* in that order carries.
ForwardRef(k) ==
    \E n \in NamedVersions(raw_versions[k]) :
        n \notin {raw_versions[j].version : j \in 1..(k - 1)}

\* C13: a version that names a version not resolved before it in the sort
\* order is never resolved: resolve_query returns InvalidVersionRef when it
\* comes to it, and returns no QueryDef.
C13_ForwardRefFails ==
    lpc # "idle" =>
        /\ \A k \in DOMAIN versions : ~ForwardRef(k)
        /\ (/\ lpc = "returned"
            /\ Len(versions) < Len(raw_versions)
            /\ ForwardRef(Len(versions) + 1))
           => load_result = Err("InvalidVersionRef")
        /\ (\E k \in DOMAIN raw_versions : ForwardRef(k))
           => ~(lpc = "returned" /\ load_result.ok)

\* The fields of the base an Extended schema of the k-th resolved version was
\* built on: the schema resolved last, before k, under the number it names.
BaseFieldsAt(k) ==
    LET n == Unwrap(Captures(raw_versions[k].schema.ext.base)).version
        before == {j \in 1..(k - 1) : raw_versions[j].version = n}
    IN  versions[CHOOSE j \in before : \A i \in before : i <= j].schema.fields

\* The fields of the base that `remove` does not name, in their order.
KeptFields(k) ==
    SelectSeq(BaseFieldsAt(k),
              LAMBDA f : f.name \notin NamesOf(raw_versions[k].schema.ext.remove))

\* The resolved fields are the kept fields, then the `add` entries in order.
KeptThenAdded(k) ==
    /\ Len(versions[k].schema.fields)
          = Len(KeptFields(k)) + Len(raw_versions[k].schema.ext.add)
    /\ \A i \in DOMAIN raw_versions[k].schema.ext.add :
          versions[k].schema.fields[Len(KeptFields(k)) + i]
             = raw_versions[k].schema.ext.add[i]

\* A `modify` entry names the i-th kept field.
Modified(k, i) ==
    \E m \in DOMAIN raw_versions[k].schema.ext.modify :
        raw_versions[k].schema.ext.modify[m].name = KeptFields(k)[i].name

\* The i-th resolved field is a `modify` entry of the name of the i-th kept
\* field.
Replaced(k, i) ==
    \E m \in DOMAIN raw_versions[k].schema.ext.modify :
        /\ raw_versions[k].schema.ext.modify[m].name = KeptFields(k)[i].name
        /\ versions[k].schema.fields[i] = raw_versions[k].schema.ext.modify[m]

\* C14 as stated: an Extended schema resolves to the fields of the base that
\* `remove` does not name, in order, every one of them that a `modify` entry
\* names replaced in place by that entry, then the `add` entries.
C14_RemoveModifyAdd ==
    \A k \in DOMAIN versions :
        raw_versions[k].schema.kind = "Extended" =>
            /\ KeptThenAdded(k)
            /\ \A i \in DOMAIN KeptFields(k) :
                  IF Modified(k, i) THEN Replaced(k, i)
                  ELSE versions[k].schema.fields[i] = KeptFields(k)[i]

\* C14 amended: as stated, but a `modify` entry replaces only the first kept
\* field of its name; a later field of the same name stays.
C14_RemoveModifyFirstAdd ==
    \A k \in DOMAIN versions :
        raw_versions[k].schema.kind = "Extended" =>
            /\ KeptThenAdded(k)
            /\ \A i \in DOMAIN KeptFields(k) :
                  IF /\ Modified(k, i)
                     /\ \A j \in 1..(i - 1) : KeptFields(k)[j].name # KeptFields(k)[i].name
                  THEN Replaced(k, i)
                  ELSE versions[k].schema.fields[i] = KeptFields(k)[i]

\* v1 = [a, b]; v2 extends v1, removes a and adds c: v2 resolved to [b, c].
C14_Witness ==
    /\ lpc = "returned"
    /\ load_result.ok
    /\ Len(versions) = 2
    /\ versions[1].schema.fields = <<Field("a", "T1"), Field("b", "T1")>>
    /\ raw_versions[2].schema =
          SchemaExtended(ExtendedSchema(VersionRef(raw_versions[1].version, "schema"),
                                        <<"a">>, <<>>, <<Field("c", "T1")>>))
    /\ versions[2].schema.fields = <<Field("b", "T1"), Field("c", "T1")>>

----------------------------------------------------------------------------
\* Properties of the fields of a PartitionDrift

\* C15 as stated: in every PartitionDrift of the report, current_sql is
\* present if and only if the state is anything other than Current.
C15_CurrentSqlIffNeedsRerun ==
    dpc = "ok" =>
        \A p \in BagToSet(report) :
            IsSome(p.current_sql) <=> p.state # "Current"

\* C15 amended: in every PartitionDrift of the report, current_sql is present
\* if and only if the state is anything other than Current and the query has
\* a version effective for the partition's date; when present it is the SQL
\* of that version as of today.
C15_CurrentSqlIffNeedsRerunAndVersion ==
    dpc = "ok" =>
        \A p \in BagToSet(report) :
            LET version == get_version_for_date(Queries[p.query_name],
                                                p.partition_key)
            IN  /\ IsSome(p.current_sql)
                     <=> (p.state # "Current" /\ IsSome(version))
                /\ IsSome(p.current_sql)
                     => Unwrap(p.current_sql)
                          = get_sql_for_date(Unwrap(version), Today)

\* A report holding a Current partition without current_sql, a Failed one and
\* a changed one with it, and a NeverRun one of a date before every version
\* without it.
C15_Witness ==
    /\ dpc = "ok"
    /\ \E p \in BagToSet(report) : p.state = "Current" /\ p.current_sql = None
    /\ \E p \in BagToSet(report) : p.state = "Failed" /\ IsSome(p.current_sql)
    /\ \E p \in BagToSet(report) :
          /\ p.state = "NeverRun"
          /\ ~HasVersion(p.query_name, p.partition_key)
          /\ p.current_sql = None

\* The row of stored_states that detect selects for (q, d): the last row of
\* that key in the list.
SelectedRow(q, d) ==
    LET idx == {i \in DOMAIN stored_states :
                  /\ stored_states[i].query_name = q
                  /\ stored_states[i].partition_date = d}
    IN  stored_states[CHOOSE i \in idx : \A j \in idx : j <= i]

\* C16: in every PartitionDrift of the report, executed_sql_b64 is the
\* executed_sql_b64 of the stored state selected for its (query, date),
\* unchanged, whatever the drift state is; it is None exactly when no stored
\* state exists for the key or the stored value is None.
C16_ExecutedSqlPreserved ==
    dpc = "ok" =>
        \A p \in BagToSet(report) :
            LET q == p.query_name
                d == p.partition_key
            IN  /\ RowsFor(q, d) # {}
                     => p.executed_sql_b64 = SelectedRow(q, d).executed_sql_b64
                /\ p.executed_sql_b64 = None
                     <=> \/ RowsFor(q, d) = {}
                         \/ SelectedRow(q, d).executed_sql_b64 = None

\* A report holding a Failed partition that carries the executed SQL of its
\* stored row, a NeverRun partition of a date before every version that
\* carries the executed SQL of its stored row, and a partition without stored
\* row and without executed SQL.
C16_Witness ==
    /\ dpc = "ok"
    /\ \E p \in BagToSet(report) :
          /\ p.state = "Failed"
          /\ RowsFor(p.query_name, p.partition_key) # {}
          /\ IsSome(p.executed_sql_b64)
          /\ p.executed_sql_b64
               = SelectedRow(p.query_name, p.partition_key).executed_sql_b64
    /\ \E p \in BagToSet(report) :
          /\ p.state = "NeverRun"
          /\ ~HasVersion(p.query_name, p.partition_key)
          /\ RowsFor(p.query_name, p.partition_key) # {}
          /\ IsSome(p.executed_sql_b64)
    /\ \E p \in BagToSet(report) :
          /\ RowsFor(p.query_name, p.partition_key) = {}
          /\ p.executed_sql_b64 = None

\* C17: detect enforces the cap on its window: when to - from exceeds 3650
\* days it returns the error and produces no report; when to - from is at
\* most 3650 days (a reversed window included) it returns Ok, whatever the
\* stored states are.
C17_WindowCap ==
    dpc # "idle" =>
        /\ to_date - from_date > 3650 => (dpc = "err" /\ report = EmptyBag)
        /\ to_date - from_date <= 3650 => dpc = "ok"

\* A window of 3651 days, the shortest one over the cap, is refused although
\* stored states were passed.
C17_Witness ==
    /\ dpc = "err"
    /\ to_date - from_date = 3651
    /\ stored_states # <<>>
    /\ report = EmptyBag

\* The number of days of the detection window.
WindowDays == IF from_date <= to_date THEN to_date - from_date + 1 ELSE 0

\* C18: a successful report holds exactly one PartitionDrift for each
\* (declared query, date of the window) and nothing else: its size is the
\* number of queries times the number of days, it is empty when from > to,
\* and stored states of undeclared queries or of dates outside the window add
\* no entry.
C18_ReportCoverage ==
    dpc = "ok" =>
        /\ \A q \in QueryNames, d \in Window :
              /\ Cardinality(DriftsFor(q, d)) = 1
              /\ \A p \in DriftsFor(q, d) : CopiesIn(p, report) = 1
        /\ \A p \in BagToSet(report) :
              p.query_name \in QueryNames /\ p.partition_key \in Window
        /\ BagCardinality(report) = Cardinality(QueryNames) * WindowDays
        /\ from_date > to_date => report = EmptyBag

\* A report of a window of two days, with a stored row of an undeclared
\* query and without a stored row for one of the partitions: one entry per
\* declared query and day.
C18_Witness ==
    /\ dpc = "ok"
    /\ WindowDays = 2
    /\ \E i \in DOMAIN stored_states :
          stored_states[i].query_name \notin QueryNames
    /\ \E i \in DOMAIN stored_states :
          stored_states[i].query_name \in QueryNames
    /\ BagCardinality(report) = 2 * Cardinality(QueryNames)

----------------------------------------------------------------------------
\* Properties of the upstream pass

\* The executed_at of the rows of all_states for (u, d).
TimesOf(u, d) ==
    {all_states[i].executed_at : i \in {j \in DOMAIN all_states :
        /\ all_states[j].query_name = u
        /\ all_states[j].partition_date = d}}

\* The times recorded for u in the stored state (at most one).
RecordedFor(u) ==
    {up_stored.upstream_states[i].recorded_time :
        i \in {j \in DOMAIN up_stored.upstream_states :
                  up_stored.upstream_states[j].name = u}}

\* u is recorded in the stored state and the latest row of all_states for u
\* and the stored partition was executed after the recorded time.
UpstreamChangedFor(u) ==
    /\ RecordedFor(u) # {}
    /\ TimesOf(u, up_stored.partition_date) # {}
    /\ \A r \in RecordedFor(u) :
          \A latest \in TimesOf(u, up_stored.partition_date) :
              (\A t \in TimesOf(u, up_stored.partition_date) : t <= latest)
              => latest > r

\* C19: every call returns Some(u) only for an upstream u of the stored
\* state whose latest row for the stored partition was executed strictly
\* after the time recorded for u, and returns None exactly when there is no
\* such upstream.
C19_UpstreamChangedCorrect ==
    \A i \in DOMAIN up_calls :
        /\ IsSome(up_calls[i].result)
              => /\ Unwrap(up_calls[i].result) \in UpstreamNames
                 /\ UpstreamChangedFor(Unwrap(up_calls[i].result))
        /\ up_calls[i].result = None
              <=> ~ \E u \in UpstreamNames : UpstreamChangedFor(u)

\* A call that names an upstream whose newer row comes first in all_states,
\* followed by an older row of the same partition, while the other recorded
\* upstream has no row at all.
C19_Witness ==
    /\ Len(up_calls) >= 1
    /\ Len(up_stored.upstream_states) = 2
    /\ Len(all_states) = 2
    /\ IsSome(up_calls[1].result)
    /\ LET u == Unwrap(up_calls[1].result)
       IN  /\ all_states[1].query_name = u
           /\ all_states[2].query_name = u
           /\ all_states[1].partition_date = up_stored.partition_date
           /\ all_states[2].partition_date = up_stored.partition_date
           /\ all_states[1].executed_at > all_states[2].executed_at
           /\ \A r \in RecordedFor(u) :
                 all_states[1].executed_at > r /\ all_states[2].executed_at <= r

\* C20 as stated: the calls made with the same stored state and the same
\* all_states return the same upstream name.
C20_DeterministicSelection ==
    \A i, j \in DOMAIN up_calls : up_calls[i].result = up_calls[j].result

----------------------------------------------------------------------------
\* Properties of the checksum comparison

\* C21: a partition whose selected stored state has status Success, the
\* number of the effective version and the sql and schema checksums of the
\* current declaration, but another yaml checksum, is not reported as
\* Current.
C21_YamlChangeNotCurrent ==
    dpc = "ok" =>
        \A q \in QueryNames, d \in Window :
            (/\ HasVersion(q, d)
             /\ RowsFor(q, d) # {}
             /\ SelectedRow(q, d).status = "Success"
             /\ SelectedRow(q, d).version
                  = Unwrap(get_version_for_date(Queries[q], d)).version
             /\ SelectedRow(q, d).sql_checksum = CurrentChecksums(q, d).sql
             /\ SelectedRow(q, d).schema_checksum = CurrentChecksums(q, d).schema
             /\ SelectedRow(q, d).yaml_checksum # CurrentChecksums(q, d).yaml)
            => \A p \in DriftsFor(q, d) : p.state # "Current"

----------------------------------------------------------------------------
\* Properties of load_dir

\* The file cannot be loaded: its preprocessing, its parsing or the
\* resolution of its versions fails.
FileFails(content) ==
    \/ content.include = "cycle"
    \/ content.yaml = "bad"
    \/ content.versions \in BadVersions

\* C22: load_dir_with_contents is all-or-nothing: when the preprocessing, the
\* parsing or the resolution of one file fails it returns an error, which
\* carries no QueryDef and no text, also when files before the failing one
\* were processed; when it succeeds it returns one QueryDef per file, and the
\* map holds exactly one text per returned query name, the processed text of
\* a file of that name.
C22_LoadDirAllOrNothing ==
    dir_pc = "returned" =>
        /\ (\E i \in DOMAIN yaml_files : FileFails(yaml_files[i]))
              => ~dir_result.ok
        /\ ~dir_result.ok => dir_result.value = <<>>
        /\ dir_result.ok =>
              LET qs == dir_result.value.queries
                  cs == dir_result.value.contents
              IN  /\ Len(qs) = Len(yaml_files)
                  /\ \A i \in DOMAIN qs : qs[i].name = yaml_files[i].name
                  /\ {e[1] : e \in cs} = {qs[i].name : i \in DOMAIN qs}
                  /\ \A e, f \in cs : e[1] = f[1] => e = f
                  /\ \A e \in cs : \E i \in DOMAIN yaml_files :
                        /\ yaml_files[i].name = e[1]
                        /\ e[2] = [yaml_files[i] EXCEPT !.include = "none"]

\* A load that returned an error for its second file, whose resolution
\* failed, after the first file was resolved and recorded.
C22_Witness ==
    /\ dir_pc = "returned"
    /\ ~dir_result.ok
    /\ Len(yaml_files) = 2
    /\ ~FileFails(yaml_files[1])
    /\ yaml_files[2].include # "cycle"
    /\ yaml_files[2].yaml = "ok"
    /\ yaml_files[2].versions \in BadVersions
    /\ Len(queries) = 1
    /\ contents # {}

----------------------------------------------------------------------------
\* Properties of the runner's lookup of a query

\* C23: run_query_partition and backfill_partitions asked for a name that is
\* not among the runner's queries return QueryNotFound, enumerate no
\* partition and start no write.
C23_UnknownQueryNotFound ==
    (op.kind \in {"backfill", "run_query_partition"}
        /\ op.query_name \notin QueryNames)
    => /\ rpc = "returned"
       /\ ret.status = "QueryNotFound"
       /\ ret.stats = <<>>
       /\ ret.failures = <<>>
       /\ tasks = <<>>
       /\ writes = <<>>

\* A backfill of two partitions of an unknown query returned QueryNotFound
\* without a partition enumerated.
C23_Witness ==
    /\ rpc = "returned"
    /\ op.kind = "backfill"
    /\ op.query_name \notin QueryNames
    /\ op.from < op.to
    /\ ret.status = "QueryNotFound"
    /\ tasks = <<>>
    /\ writes = <<>>

----------------------------------------------------------------------------
\* Properties of the field word of a reference

\* The words after `versions.N.` of the references of a version's schema
\* (a Reference, or the base of an Extended) that match the pattern.
SchemaRefWords(raw_version) ==
    {Unwrap(Captures(r)).field :
        r \in {t \in (IF raw_version.schema.kind = "Reference"
                      THEN {raw_version.schema.ref}
                      ELSE IF raw_version.schema.kind = "Extended"
                      THEN {raw_version.schema.ext.base} ELSE {}) :
                 IsSome(Captures(t))}}

\* The same for the version's invariants.
InvariantsRefWords(raw_version) ==
    {Unwrap(Captures(r)).field :
        r \in {t \in (IF ~IsSome(raw_version.invariants) THEN {}
                      ELSE IF Unwrap(raw_version.invariants).kind = "Reference"
                      THEN {Unwrap(raw_version.invariants).ref}
                      ELSE IF Unwrap(raw_version.invariants).kind = "Extended"
                      THEN {Unwrap(raw_version.invariants).ext.base} ELSE {}) :
                 IsSome(Captures(t))}}

\* C24: a declaration is resolved only if every reference of a schema has
\* the word `schema` after `versions.N.` and every reference of invariants
\* has the word `invariants`: a reference with another word makes the
\* resolution fail.
C24_WrongFieldFails ==
    (lpc = "returned" /\ load_result.ok) =>
        \A k \in DOMAIN raw_versions :
            /\ SchemaRefWords(raw_versions[k]) \subseteq {"schema"}
            /\ InvariantsRefWords(raw_versions[k]) \subseteq {"invariants"}

----------------------------------------------------------------------------
\* Properties of the order of resolution

\* The index of the last of the resolved versions that has the number n.
LastResolved(n) ==
    CHOOSE i \in DOMAIN versions :
        /\ versions[i].version = n
        /\ \A j \in DOMAIN versions : versions[j].version = n => j <= i

\* C25: whatever the order of the versions in the declaration, resolve_query
\* works on them sorted ascending by (effective_from, version); the versions
\* resolved so far are the first ones of that order; the results a version
\* is resolved against are those of the versions before it in that order,
\* under their numbers (for a number declared twice, the later result); and
\* the QueryDef returned holds all versions in that order.
C25_SortedSequentialResolution ==
    lpc # "idle" =>
        /\ BagOfSeq(raw_versions) = BagOfSeq(declared_versions)
        /\ \A i, j \in DOMAIN raw_versions :
              i < j =>
                 \/ raw_versions[i].effective_from < raw_versions[j].effective_from
                 \/ /\ raw_versions[i].effective_from = raw_versions[j].effective_from
                    /\ raw_versions[i].version <= raw_versions[j].version
        /\ Len(versions) <= Len(raw_versions)
        /\ \A i \in DOMAIN versions :
              /\ versions[i].version = raw_versions[i].version
              /\ versions[i].effective_from = raw_versions[i].effective_from
        /\ DOMAIN resolved_schemas = {versions[i].version : i \in DOMAIN versions}
        /\ DOMAIN resolved_invariants = {versions[i].version : i \in DOMAIN versions}
        /\ \A n \in DOMAIN resolved_schemas :
              /\ resolved_schemas[n] = versions[LastResolved(n)].schema
              /\ resolved_invariants[n] = versions[LastResolved(n)].invariants
        /\ (lpc = "returned" /\ load_result.ok) =>
              /\ load_result.value.versions = versions
              /\ Len(versions) = Len(declared_versions)

\* A declaration that lists its later version first, that version being a
\* reference to the earlier one, is resolved: the earlier version comes
\* first in the QueryDef.
C25_Witness ==
    /\ lpc = "returned"
    /\ load_result.ok
    /\ Len(declared_versions) = 2
    /\ declared_versions[1].effective_from > declared_versions[2].effective_from
    /\ declared_versions[1].schema.kind = "Reference"
    /\ load_result.value.versions[1].version = declared_versions[2].version
    /\ load_result.value.versions[2].version = declared_versions[1].version
    /\ load_result.value.versions[2].schema = load_result.value.versions[1].schema

----------------------------------------------------------------------------
\* Properties of the order of the steps of a write

\* The calls of write i that are statements of its body.
StatementCalls(i) ==
    {c \in DOMAIN writes[i].calls :
        writes[i].calls[c] \in {"body", "delete", "insert"}}

\* The calls write i makes when all of them succeed.
ExpectedCalls(i) ==
    LET fn  == WriterFnOf(op.kind)
        run == fn \notin {"write_partition_skip_invariants",
                          "write_partition_truncate_skip_invariants"}
    IN  (IF run /\ ChecksOf(tasks[i])[1] # <<>> THEN <<"before_checks">> ELSE <<>>)
        \o (IF fn \in {"write_partition_truncate",
                       "write_partition_truncate_skip_invariants"}
            THEN <<"delete", "insert">> ELSE <<"body">>)
        \o (IF run /\ ChecksOf(tasks[i])[2] # <<>> THEN <<"after_checks">> ELSE <<>>)

\* C26: a write returns its PartitionWriteStats only after the before checks
\* (all of them, none Failed with severity Error), then the body, executed
\* with success, then the after checks; the body starts only after the before
\* checks and the after checks only after a successful body; a write whose
\* body failed returns the error, runs no after check and gives no stats;
\* without run_invariants the body is executed once, no check is run and the
\* invariant report is None.
C26_NoPartialStats ==
    \A i \in DOMAIN writes :
        LET w   == writes[i]
            run == WriterFnOf(op.kind) \notin
                       {"write_partition_skip_invariants",
                        "write_partition_truncate_skip_invariants"}
            BeforeClean ==
                /\ Len(w.before) = Len(ChecksOf(tasks[i])[1])
                /\ \A k \in DOMAIN w.before :
                      ~(w.before[k].status = "Failed" /\ w.before[k].severity = "Error")
        IN  /\ w.result = "Ok" =>
                  /\ w.pc = "done"
                  /\ warehouse[i] = "written"
                  /\ w.calls = ExpectedCalls(i)
                  /\ run => BeforeClean /\ Len(w.after) = Len(ChecksOf(tasks[i])[2])
            /\ (StatementCalls(i) # {} /\ run) => BeforeClean
            /\ (\E c \in DOMAIN w.calls : w.calls[c] = "after_checks")
                  => warehouse[i] = "written"
            /\ w.result = "Warehouse" =>
                  /\ w.pc = "done"
                  /\ warehouse[i] # "written"
                  /\ w.after = <<>>
                  /\ w.calls[Len(w.calls)] \in {"body", "delete", "insert"}
            /\ ~run =>
                  /\ w.before = <<>> /\ w.after = <<>>
                  /\ \A c \in DOMAIN w.calls : c \in StatementCalls(i)
                  /\ Cardinality({c \in DOMAIN w.calls : w.calls[c] = "body"}) <= 1
            /\ (rpc = "returned" /\ op.kind \notin {"backfill", "run_for_partition"}) =>
                  /\ ret.status = w.result
                  /\ w.result # "Ok" => ret.stats = <<>>
                  /\ w.result = "Ok" =>
                        /\ Len(ret.stats) = 1
                        /\ ret.stats[1].invariant_report = None <=> ~run
                        /\ run => ret.stats[1].invariant_report
                                     = Some([before |-> w.before, after |-> w.after])
            /\ (rpc = "returned" /\ op.kind \in {"backfill", "run_for_partition"}) =>
                  Len(ret.stats) = Cardinality({j \in DOMAIN writes :
                                                  writes[j].result = "Ok"})

\* A backfill in which one write went through its before checks, its body
\* and its after checks and gave its stats, and another one failed at its
\* body and ran no after check.
C26_Witness ==
    /\ rpc = "returned"
    /\ op.kind = "backfill"
    /\ \E i \in DOMAIN writes :
          /\ writes[i].result = "Ok"
          /\ writes[i].calls = <<"before_checks", "body", "after_checks">>
    /\ \E i \in DOMAIN writes :
          /\ writes[i].result = "Warehouse"
          /\ writes[i].calls = <<"before_checks", "body">>
    /\ Len(ret.stats) = 1
    /\ Len(ret.failures) = 1

----------------------------------------------------------------------------
\* Properties of the truncate mode

\* The positions of a call of the given name in the calls of write i.
CallsNamed(i, name) == {c \in DOMAIN writes[i].calls : writes[i].calls[c] = name}

\* C27: in truncate mode the DELETE is issued before the INSERT and the
\* INSERT only after a DELETE that succeeded; a failed DELETE fails the write
\* with no INSERT and the partition untouched; a failed INSERT after a
\* successful DELETE fails the write, with no stats and the partition left
\* deleted.
C27_DeleteThenInsert ==
    op.kind \in {"write_partition_truncate", "write_partition_truncate_skip_invariants"} =>
        \A i \in DOMAIN writes :
            LET w == writes[i]
                last == IF w.calls = <<>> THEN "none" ELSE w.calls[Len(w.calls)]
            IN  /\ CallsNamed(i, "body") = {}
                /\ Cardinality(CallsNamed(i, "delete")) <= 1
                /\ Cardinality(CallsNamed(i, "insert")) <= 1
                /\ \A c \in CallsNamed(i, "insert") :
                      /\ c > 1
                      /\ w.calls[c - 1] = "delete"
                      /\ warehouse[i] \in {"deleted", "written"}
                /\ (w.pc = "done" /\ last = "delete") =>
                      /\ w.result = "Warehouse"
                      /\ warehouse[i] = "untouched"
                /\ (w.result = "Warehouse" /\ last = "insert") =>
                      warehouse[i] = "deleted"
                /\ (w.pc = "done" /\ warehouse[i] = "deleted") =>
                      /\ w.result = "Warehouse"
                      /\ last = "insert"
                /\ warehouse[i] = "written" => CallsNamed(i, "insert") # {}
                /\ warehouse[i] = "deleted" => CallsNamed(i, "delete") # {}
                /\ (rpc = "returned" /\ w.result = "Warehouse") =>
                      /\ ret.status = "Warehouse"
                      /\ ret.stats = <<>>

\* A truncate write, with invariants, whose DELETE succeeded and whose INSERT
\* failed: the call returned the error and the partition is left deleted.
C27_Witness ==
    /\ rpc = "returned"
    /\ op.kind = "write_partition_truncate"
    /\ Len(writes) = 1
    /\ writes[1].calls = <<"before_checks", "delete", "insert">>
    /\ writes[1].result = "Warehouse"
    /\ warehouse[1] = "deleted"
    /\ ret.stats = <<>>

----------------------------------------------------------------------------
\* Properties of the checksum cache

\* The QueryDef of a query of either detector.
QueryOf(query_name) ==
    IF query_name \in DOMAIN Queries THEN Queries[query_name]
    ELSE TwiceDeclared[query_name]

\* C28: every PartitionDrift of the report is the one computed for its query
\* and date alone, the checksums of the effective version being computed
\* from scratch (an empty cache), whatever dates came before it in the window
\* and whatever the other queries are.
C28_MemoSameAsScratch ==
    dpc = "ok" =>
        \A p \in DOMAIN report :
            p = detect_partition_cached(
                    p.query_name, QueryOf(p.query_name), p.partition_key,
                    MapGet(stored_map(stored_states),
                           <<p.query_name, p.partition_key>>),
                    YamlOf(p.query_name), <<>>, Today).drift

----------------------------------------------------------------------------
\* Properties of the enumeration of a backfill

====
